---- MODULE Spec2Model ----
(***************************************************************************)
(* The filesystem action transaction engine of the video reviewer:         *)
(* the reversible actions (rename, trim, delete, merge) of src/objects,    *)
(* the per-folder history log of src/services/action_history_service.py    *)
(* and the folder lock of src/services/folder_lock.py.                     *)
(*                                                                         *)
(* A path is a record [dir, base, ext]: os.path.dirname is dir,            *)
(* os.path.basename is base \o ext and os.path.splitext is (base, ext).    *)
(* File names are strings, built with \o exactly as the f-strings of the   *)
(* code build them, so two derived names collide in the model when they    *)
(* collide on disk.  The filesystem fs is a function from the paths of the *)
(* regular files that exist to their contents.                             *)
(***************************************************************************)
EXTENDS Integers, Sequences, FiniteSets, TLC

VARIABLES
    fs,         \* path -> content, the video files of the folders and their archive directories
    history,    \* folder -> the history.json of its metadata directory
    lockFile,   \* folder -> the content of history.lock in its metadata directory ("" = absent)
    nextId,     \* source of the fresh record ids (uuid4) and timestamps
    nExternal,  \* number of changes made to the folder from outside the service
    nUndo,      \* number of undos that succeeded so far
    nFailed,    \* number of calls that raised so far
    last,       \* observation of the last completed step (what a caller or a test sees)
    callers,    \* caller -> where its call of the service is, and what it holds (SpecLock)
    held,       \* folder -> the callers whose open history.lock holds the lock
    os_name,    \* os.name of the machine: "posix" or "nt"
    tmpFile,    \* folder -> history.json.tmp of its metadata directory
    applied,    \* the last apply() run under faults: its action, its faults, its outcome
    rename_call,                        \* a call of safe_rename: its attempts so far
    active_video_stream_counts,         \* app._active_video_stream_counts: path -> readers
    active_video_stream_counts_lock,    \* the thread that holds the mutex of the registry ("" = free)
    streams,    \* request thread -> where its GET /api/video is
    drain,      \* request thread -> where its POST /api/action (delete) is before execute
    responses   \* the last error responses of the routes: what was raised, and the status sent

\* the folders and the calls of the service on them
folders ==
    <<fs, history, lockFile, nextId, nExternal, nUndo, nFailed, last, callers, held,
      os_name, tmpFile, applied>>

\* the registry of the video streams in app.py, and the requests that use it
registry == <<active_video_stream_counts, active_video_stream_counts_lock, streams, drain>>

\* the state around the service: the rename in progress and the registry
served == <<rename_call, registry, responses>>

vars == <<folders, served>>

-----------------------------------------------------------------------------
(* Bounds of the model *)

\* successful executes, successful undos and changes from outside that a run makes
MaxExec == 2

\* the same, in the runs of renames and deletes only (SpecTail)
MaxTail == 3

MaxUndo == 2

MaxExternal == 1

\* a run is followed up to its MaxFailed-th call that raises
MaxFailed == 1

\* calls that each concurrent caller makes, and the polls of the lock after
\* which a waiting caller has waited timeout_seconds
MaxCalls == 1

MaxPolls == 2

-----------------------------------------------------------------------------
(* Paths and names *)

Path(dir, base, ext) == [dir |-> dir, base |-> base, ext |-> ext]

\* Python's None where a path is expected
NoPath == Path("", "", "")

Folder == "F"

Folders == {Folder}

basename(p) == p.base \o p.ext

dirname(p) == p.dir

\* file_ops.get_archive_dir: os.path.join(folder_path, "TO_BE_DELETED")
get_archive_dir(folder_path) == folder_path \o "/TO_BE_DELETED"

\* str.strip() on the names a caller supplies
strip(name) == CASE name = " " -> "" [] name = " b" -> "b" [] OTHER -> name

\* file_ops.sanitize_filename: every one of <>:"/\|?* and the control characters becomes "_"
sanitize_filename(name) == CASE name = "b?" -> "b_" [] name = "a/b" -> "a_b" [] OTHER -> name

\* the candidate f"{name} ({index}){ext}" of ensure_unique_path
Candidate(path, index) == [path EXCEPT !.base = path.base \o " (" \o ToString(index) \o ")"]

RECURSIVE UniqueFrom(_, _, _)
UniqueFrom(f, path, index) ==
    IF Candidate(path, index) \notin DOMAIN f
    THEN Candidate(path, index)
    ELSE UniqueFrom(f, path, index + 1)

\* a resolution that would try "name (2)" and look no further
ensure_unique_path_second(f, path) ==
    IF path \notin DOMAIN f THEN path ELSE Candidate(path, 2)

\* file_ops.ensure_unique_path
ensure_unique_path(f, path) ==
    IF path \notin DOMAIN f THEN path ELSE UniqueFrom(f, path, 2)

-----------------------------------------------------------------------------------------------------------------------------------------------------
(* Filesystem primitives *)

exists(f, p) == p \in DOMAIN f

Content(f, p) == IF p \in DOMAIN f THEN f[p] ELSE ""

\* os.rename(src, dst) of an existing src
Move(f, src, dst) ==
    [p \in (DOMAIN f \ {src}) \cup {dst} |-> IF p = dst THEN Content(f, src) ELSE f[p]]

Remove(f, p) == [q \in DOMAIN f \ {p} |-> f[q]]

RemoveIfExists(f, p) == IF exists(f, p) THEN Remove(f, p) ELSE f

Create(f, p, content) == [q \in DOMAIN f \cup {p} |-> IF q = p THEN content ELSE f[q]]

\* the best-effort steps of the except-blocks of Trim and Merge apply: the
\* os.remove of the temp output, the os.remove of the promoted output, and the
\* safe_rename that takes an archived source back
CleanupSteps == {"temp", "out", "restore"}

\* The faults of one call: env.tool is whether the external ffmpeg run exits 0,
\* env.failAt is the position, among the safe_rename calls the handler makes, of
\* the one whose os.rename keeps raising (0: none does), env.partial is whether
\* a failing ffmpeg run has left a file at its output path, and env.keep holds
\* the best-effort cleanup steps that raise (and are passed over).
Envs == [tool : BOOLEAN, failAt : 0..4, partial : BOOLEAN, keep : SUBSET CleanupSteps]

NoFault == [tool |-> TRUE, failAt |-> 0, partial |-> FALSE, keep |-> {}]

\* a cleanup that would leave every file where it is
remove_skipped(f, p, env, step) == f

\* "if os.path.exists(p): try: os.remove(p) except Exception: pass"
remove_quietly(f, p, env, step) ==
    IF step \notin env.keep THEN RemoveIfExists(f, p) ELSE f

\* what an ffmpeg run that exits non-zero leaves at its output path
tool_failed(f, temp_output, env) ==
    IF env.partial THEN Create(f, temp_output, "partial") ELSE f

\* file_ops.safe_rename, as the k-th rename of the running handler: [ok, fs]
safe_rename(f, src, dst, env, k) ==
    IF env.failAt = k \/ ~exists(f, src)
    THEN [ok |-> FALSE, fs |-> f]
    ELSE [ok |-> TRUE, fs |-> Move(f, src, dst)]

-----------------------------------------------------------------------------
(* Actions.  One record shape serves the four variants:                    *)
(*   paths          Rename.old_path, Trim/Delete.original_path (one entry),*)
(*                  Merge.paths                                            *)
(*   out_path       Rename.new_path, Trim.trimmed_path, Merge.merged_path  *)
(*   archived_paths Delete.archived_path, Trim.archived_original_path (one *)
(*                  entry), Merge.archived_paths; <<>> is None             *)
(* An action method gives [ok, err, fs, action, result]: whether it        *)
(* returned, the exception it raised, the filesystem it leaves, the action *)
(* object with its memoized paths, and the current_path/archived_path of   *)
(* its result.  A _resolve_ method gives the action with the path          *)
(* memoized.  A method is written as a chain of operators, each taking the *)
(* value of the step before it as a parameter.                             *)

Action(type, folder, paths, new_name, start, end, archive, out, archived) ==
    [action_type |-> type, folder_path |-> folder, paths |-> paths,
     new_name |-> new_name, start |-> start, end |-> end,
     archive_originals |-> archive, out_path |-> out, archived_paths |-> archived]

Returned(f, a, res) == [ok |-> TRUE, err |-> "", fs |-> f, action |-> a, result |-> res]

Raised(e, f, a) == [ok |-> FALSE, err |-> e, fs |-> f, action |-> a, result |-> NoPath]

\* the end of a method whose last step is the rename mv
Renamed(mv, a, res) ==
    IF mv.ok THEN Returned(mv.fs, a, res) ELSE Raised("PermissionError", mv.fs, a)

First(seq) == IF seq = <<>> THEN NoPath ELSE seq[1]

\* RenameVideoAction.__init__
RenameVideoAction(old_path, new_name, new_path) ==
    Action("rename", dirname(old_path), <<old_path>>, strip(new_name), "", "", FALSE, new_path, <<>>)

\* RenameVideoAction._resolve_new_path: whether it raises ValueError
Rename_resolve_raises(a) == a.out_path = NoPath /\ a.new_name = ""

\* a _resolve_new_path that takes the desired path as it is
Rename_resolve_new_path_desired(a, f) ==
    IF a.out_path # NoPath \/ a.new_name = "" THEN a
    ELSE [a EXCEPT !.out_path = Path(a.folder_path, sanitize_filename(a.new_name), a.paths[1].ext)]

\* RenameVideoAction._resolve_new_path
Rename_resolve_new_path(a, f) ==
    IF a.out_path # NoPath \/ a.new_name = "" THEN a
    ELSE [a EXCEPT !.out_path =
              ensure_unique_path(f, Path(a.folder_path, sanitize_filename(a.new_name), a.paths[1].ext))]

\* a Rename that would move the file without looking at the destination
Rename_apply_resolved_over(a, f, env) ==
    IF a.out_path = a.paths[1] THEN Returned(f, a, a.out_path)
    ELSE Renamed(safe_rename(f, a.paths[1], a.out_path, env, 1), a, a.out_path)

Rename_apply_resolved(a, f, env) ==
    IF a.out_path = a.paths[1] THEN Returned(f, a, a.out_path)
    ELSE IF exists(f, a.out_path) THEN Raised("FileExistsError", f, a)
    ELSE Renamed(safe_rename(f, a.paths[1], a.out_path, env, 1), a, a.out_path)

\* RenameVideoAction.apply
Rename_apply(a, f, env) ==
    IF ~exists(f, a.paths[1]) THEN Raised("FileNotFoundError", f, a)
    ELSE IF Rename_resolve_raises(a) THEN Raised("ValueError", f, a)
    ELSE Rename_apply_resolved(Rename_resolve_new_path(a, f), f, env)

Rename_undo_resolved(a, f, env) ==
    IF a.out_path = a.paths[1] THEN Returned(f, a, a.paths[1])
    ELSE IF ~exists(f, a.out_path) THEN Raised("FileNotFoundError", f, a)
    ELSE IF exists(f, a.paths[1]) THEN Raised("FileExistsError", f, a)
    ELSE Renamed(safe_rename(f, a.out_path, a.paths[1], env, 1), a, a.paths[1])

\* RenameVideoAction.undo
Rename_undo(a, f, env) ==
    IF Rename_resolve_raises(a) THEN Raised("ValueError", f, a)
    ELSE Rename_undo_resolved(Rename_resolve_new_path(a, f), f, env)

\* DeleteVideoAction.__init__
DeleteVideoAction(original_path, archived_path) ==
    Action("delete", dirname(original_path), <<original_path>>, "", "", "", FALSE, NoPath,
           IF archived_path = NoPath THEN <<>> ELSE <<archived_path>>)

\* DeleteVideoAction._resolve_archived_path
Delete_resolve_archived_path(a, f) ==
    IF a.archived_paths # <<>> THEN a
    ELSE [a EXCEPT !.archived_paths =
              <<ensure_unique_path(f, Path(get_archive_dir(a.folder_path),
                                           a.paths[1].base \o "_archive_" \o a.paths[1].base,
                                           a.paths[1].ext))>>]

\* a Delete that would copy the file to the archive and leave the original
Delete_apply_resolved_copied(a, f, env) ==
    Returned(Create(f, a.archived_paths[1], Content(f, a.paths[1])), a, a.archived_paths[1])

Delete_apply_resolved(a, f, env) ==
    IF exists(f, a.archived_paths[1]) THEN Raised("FileExistsError", f, a)
    ELSE Renamed(safe_rename(f, a.paths[1], a.archived_paths[1], env, 1), a, a.archived_paths[1])

\* DeleteVideoAction.apply
Delete_apply(a, f, env) ==
    IF ~exists(f, a.paths[1]) THEN Raised("FileNotFoundError", f, a)
    ELSE Delete_apply_resolved(Delete_resolve_archived_path(a, f), f, env)

Delete_undo_resolved(a, f, env) ==
    IF ~exists(f, a.archived_paths[1]) THEN Raised("FileNotFoundError", f, a)
    ELSE IF exists(f, a.paths[1]) THEN Raised("FileExistsError", f, a)
    ELSE Renamed(safe_rename(f, a.archived_paths[1], a.paths[1], env, 1), a, a.paths[1])

\* DeleteVideoAction.undo
Delete_undo(a, f, env) == Delete_undo_resolved(Delete_resolve_archived_path(a, f), f, env)

\* TrimVideoAction.__init__
TrimVideoAction(original_path, new_name, start, end, trimmed_path, archived_original_path) ==
    Action("trim", dirname(original_path), <<original_path>>, strip(new_name), strip(start), strip(end),
           FALSE, trimmed_path,
           IF archived_original_path = NoPath THEN <<>> ELSE <<archived_original_path>>)

\* a validation that asks for a name only
Trim_validate_raises_name(a) == a.new_name = ""

\* TrimVideoAction._validate_inputs: whether it raises ValueError
Trim_validate_raises(a) == a.new_name = "" \/ a.start = ""

\* TrimVideoAction._resolve_trimmed_path
Trim_resolve_trimmed_path(a, f) ==
    IF a.out_path # NoPath THEN a
    ELSE [a EXCEPT !.out_path =
              ensure_unique_path(f, Path(a.folder_path, sanitize_filename(a.new_name), a.paths[1].ext))]

\* TrimVideoAction._resolve_archived_original_path
Trim_resolve_archived_original_path(a, f) ==
    IF a.archived_paths # <<>> THEN a
    ELSE [a EXCEPT !.archived_paths =
              <<ensure_unique_path(f, Path(get_archive_dir(a.folder_path),
                                           sanitize_filename(a.new_name) \o "_archive_" \o a.paths[1].base,
                                           a.paths[1].ext))>>]

\* TrimVideoAction._build_temp_output_path (the pid and the clock reading are one fixed text)
Trim_build_temp_output_path(a) ==
    Path(a.folder_path,
         "_temp_trim_pid_ms_" \o (IF sanitize_filename(a.new_name) = "" THEN "trim"
                                  ELSE sanitize_filename(a.new_name)),
         a.paths[1].ext)

\* what "ffmpeg -ss start -i original [-to end] -c copy" writes
TrimOutput(content, start, end) == "trim(" \o content \o "," \o start \o "," \o end \o ")"

\* the cleanup of TrimVideoAction.apply after a failure past the tool run
Trim_cleanup(a, f, env) ==
    remove_quietly(remove_quietly(f, Trim_build_temp_output_path(a), env, "temp"),
                   a.out_path, env, "out")

Trim_apply_archived(a, env, m2) ==
    IF m2.ok THEN Returned(m2.fs, a, a.out_path)
    ELSE Raised("PermissionError", Trim_cleanup(a, m2.fs, env), a)

Trim_apply_promoted(a, env, m1) ==
    IF ~m1.ok THEN Raised("PermissionError", Trim_cleanup(a, m1.fs, env), a)
    ELSE Trim_apply_archived(a, env, safe_rename(m1.fs, a.paths[1], a.archived_paths[1], env, 2))

Trim_apply_resolved(a, f, env) ==
    IF exists(f, a.out_path) THEN Raised("FileExistsError", f, a)
    ELSE IF exists(f, a.archived_paths[1]) THEN Raised("FileExistsError", f, a)
    ELSE IF ~env.tool
         THEN Raised("RuntimeError",
                     remove_quietly(tool_failed(f, Trim_build_temp_output_path(a), env),
                                    Trim_build_temp_output_path(a), env, "temp"),
                     a)
    ELSE Trim_apply_promoted(a, env,
             safe_rename(Create(f, Trim_build_temp_output_path(a),
                                TrimOutput(Content(f, a.paths[1]), a.start, a.end)),
                         Trim_build_temp_output_path(a), a.out_path, env, 1))

\* TrimVideoAction.apply
Trim_apply(a, f, env) ==
    IF Trim_validate_raises(a) THEN Raised("ValueError", f, a)
    ELSE IF ~exists(f, a.paths[1]) THEN Raised("FileNotFoundError", f, a)
    ELSE Trim_apply_resolved(
             Trim_resolve_archived_original_path(Trim_resolve_trimmed_path(a, f), f), f, env)

Trim_undo_relocated(a, env, k, m1) ==
    IF ~m1.ok THEN Raised("PermissionError", m1.fs, a)
    ELSE Renamed(safe_rename(m1.fs, a.archived_paths[1], a.paths[1], env, k), a, a.paths[1])

\* a Trim undo that leaves the trimmed output where it is
Trim_undo_resolved_inplace(a, f, env) ==
    IF ~exists(f, a.archived_paths[1]) THEN Raised("FileNotFoundError", f, a)
    ELSE Trim_undo_relocated(a, env, 1, [ok |-> TRUE, fs |-> f])

\* a Trim undo that takes the trimmed output out of the folder before it
\* looks at the original and its archived copy
Trim_undo_resolved_eager(a, f, env) ==
    IF a.out_path # NoPath /\ exists(f, a.out_path)
    THEN Raised("FileNotFoundError", RemoveIfExists(f, a.out_path), a)
    ELSE Trim_undo_resolved_inplace(a, f, env)

Trim_undo_resolved(a, f, env) ==
    IF ~exists(f, a.archived_paths[1]) THEN Raised("FileNotFoundError", f, a)
    ELSE IF exists(f, a.paths[1]) THEN Raised("FileExistsError", f, a)
    ELSE IF a.out_path # NoPath /\ exists(f, a.out_path)
         THEN Trim_undo_relocated(a, env, 2,
                  safe_rename(f, a.out_path,
                              ensure_unique_path(f, Path(get_archive_dir(a.folder_path),
                                                         "undo_archive_" \o a.out_path.base,
                                                         a.out_path.ext)),
                              env, 1))
         ELSE Trim_undo_relocated(a, env, 1, [ok |-> TRUE, fs |-> f])

\* TrimVideoAction.undo
Trim_undo(a, f, env) == Trim_undo_resolved(Trim_resolve_archived_original_path(a, f), f, env)

\* MergeVideosAction.__init__ (archived_paths <<>> is None)
MergeVideosAction(primary_path, paths, new_name, archive_originals, merged_path, archived_paths) ==
    Action("merge", dirname(primary_path), paths, strip(new_name), "", "", archive_originals,
           merged_path, archived_paths)

Range(seq) == {seq[i] : i \in DOMAIN seq}

Min(x, y) == IF x < y THEN x ELSE y

\* a validation that only counts the clips
Merge_validate_raises_count(a) == Len(a.paths) < 2 \/ Len(a.paths) > 3

\* MergeVideosAction._validate_inputs: whether it raises ValueError
Merge_validate_raises(a) ==
    \/ Len(a.paths) < 2
    \/ Len(a.paths) > 3
    \/ Cardinality(Range(a.paths)) # Len(a.paths)
    \/ a.new_name = ""
    \/ Cardinality({dirname(p) : p \in Range(a.paths)}) # 1

\* MergeVideosAction._validate_inputs: the action it leaves (folder_path is reset)
Merge_validated(a) == [a EXCEPT !.folder_path = dirname(First(a.paths))]

\* MergeVideosAction._resolve_merged_path
Merge_resolve_merged_path(a, f) ==
    IF a.out_path # NoPath THEN a
    ELSE [a EXCEPT !.out_path =
              ensure_unique_path(f, Path(a.folder_path, sanitize_filename(a.new_name), First(a.paths).ext))]

\* MergeVideosAction._resolve_archived_paths: the action it leaves
Merge_resolve_archived_paths(a, f) ==
    IF ~a.archive_originals \/ a.archived_paths # <<>> THEN a
    ELSE [a EXCEPT !.archived_paths =
              [i \in 1..Len(a.paths) |->
                  ensure_unique_path(f, Path(get_archive_dir(a.folder_path),
                                             sanitize_filename(a.new_name) \o "_archive_" \o a.paths[i].base,
                                             a.paths[i].ext))]]

\* MergeVideosAction._resolve_archived_paths: the list it returns
Merge_archived_paths(a) == IF a.archive_originals THEN a.archived_paths ELSE <<>>

\* MergeVideosAction._build_temp_output_path
Merge_build_temp_output_path(a) ==
    Path(a.folder_path,
         "_temp_merge_pid_ms_" \o (IF sanitize_filename(a.new_name) = "" THEN "merge"
                                   ELSE sanitize_filename(a.new_name)),
         First(a.paths).ext)

RECURSIVE ConcatContents(_, _, _)
ConcatContents(f, paths, i) ==
    IF i > Len(paths) THEN ""
    ELSE Content(f, paths[i]) \o (IF i < Len(paths) THEN "+" ELSE "") \o ConcatContents(f, paths, i + 1)

\* what "ffmpeg -f concat -i concat_file -c copy" writes
MergeOutput(f, paths) == "merge(" \o ConcatContents(f, paths, 1) \o ")"

\* an archiving loop that would stop after the first source
Merge_archive_loop_first(f, paths, archived_paths, env, i) ==
    IF archived_paths = <<>> THEN [ok |-> TRUE, fs |-> f, moved |-> 0]
    ELSE [ok |-> TRUE, fs |-> Move(f, paths[1], archived_paths[1]), moved |-> 1]

\* the archiving loop of MergeVideosAction.apply from the i-th pair on:
\* [ok, fs, moved], moved being the number of pairs in moved_pairs
RECURSIVE Merge_archive_loop(_, _, _, _, _)
Merge_archive_loop(f, paths, archived_paths, env, i) ==
    IF i > Min(Len(paths), Len(archived_paths)) THEN [ok |-> TRUE, fs |-> f, moved |-> i - 1]
    ELSE IF ~safe_rename(f, paths[i], archived_paths[i], env, i + 1).ok
         THEN [ok |-> FALSE, fs |-> f, moved |-> i - 1]
    ELSE Merge_archive_loop(Move(f, paths[i], archived_paths[i]), paths, archived_paths, env, i + 1)

\* a rollback that would take no source back
Merge_rollback_none(f, paths, archived_paths, env, i) == f

\* the rollback of MergeVideosAction.apply: reversed(moved_pairs), from the i-th pair down
RECURSIVE Merge_rollback(_, _, _, _, _)
Merge_rollback(f, paths, archived_paths, env, i) ==
    IF i < 1 THEN f
    ELSE Merge_rollback(
             IF exists(f, archived_paths[i]) /\ ~exists(f, paths[i]) /\ "restore" \notin env.keep
             THEN Move(f, archived_paths[i], paths[i]) ELSE f,
             paths, archived_paths, env, i - 1)

Merge_apply_archived(a, env, loop) ==
    IF loop.ok THEN Returned(loop.fs, a, a.out_path)
    ELSE Raised("PermissionError",
                remove_quietly(
                    Merge_rollback(remove_quietly(loop.fs, Merge_build_temp_output_path(a), env, "temp"),
                                   a.paths, Merge_archived_paths(a), env, loop.moved),
                    a.out_path, env, "out"),
                a)

Merge_apply_promoted(a, env, m1) ==
    IF ~m1.ok
    THEN Raised("PermissionError",
                remove_quietly(remove_quietly(m1.fs, Merge_build_temp_output_path(a), env, "temp"),
                               a.out_path, env, "out"),
                a)
    ELSE Merge_apply_archived(a, env, Merge_archive_loop(m1.fs, a.paths, Merge_archived_paths(a), env, 1))

Merge_apply_resolved(a, f, env) ==
    IF exists(f, a.out_path) THEN Raised("FileExistsError", f, a)
    ELSE IF \E p \in Range(Merge_archived_paths(a)) : exists(f, p) THEN Raised("FileExistsError", f, a)
    ELSE IF ~env.tool
         THEN Raised("RuntimeError",
                     remove_quietly(tool_failed(f, Merge_build_temp_output_path(a), env),
                                    Merge_build_temp_output_path(a), env, "temp"),
                     a)
    ELSE Merge_apply_promoted(a, env,
             safe_rename(Create(f, Merge_build_temp_output_path(a), MergeOutput(f, a.paths)),
                         Merge_build_temp_output_path(a), a.out_path, env, 1))

Merge_apply_validated(a, f, env) ==
    IF \E p \in Range(a.paths) : ~exists(f, p) THEN Raised("FileNotFoundError", f, a)
    ELSE Merge_apply_resolved(Merge_resolve_archived_paths(Merge_resolve_merged_path(a, f), f), f, env)

\* MergeVideosAction.apply
Merge_apply(a, f, env) ==
    IF Merge_validate_raises(a) THEN Raised("ValueError", f, a)
    ELSE Merge_apply_validated(Merge_validated(a), f, env)

\* the first error of the checking loop of MergeVideosAction.undo from the i-th pair on ("" = none)
RECURSIVE Merge_undo_check(_, _, _, _)
Merge_undo_check(f, paths, archived_paths, i) ==
    IF i > Min(Len(paths), Len(archived_paths)) THEN ""
    ELSE IF ~exists(f, archived_paths[i]) THEN "FileNotFoundError"
    ELSE IF exists(f, paths[i]) THEN "FileExistsError"
    ELSE Merge_undo_check(f, paths, archived_paths, i + 1)

\* the restoring loop of MergeVideosAction.undo from the i-th pair on: [ok, fs]
RECURSIVE Merge_restore_loop(_, _, _, _, _)
Merge_restore_loop(f, paths, archived_paths, env, i) ==
    IF i > Min(Len(paths), Len(archived_paths)) THEN [ok |-> TRUE, fs |-> f]
    ELSE IF ~safe_rename(f, archived_paths[i], paths[i], env, i + 1).ok THEN [ok |-> FALSE, fs |-> f]
    ELSE Merge_restore_loop(Move(f, archived_paths[i], paths[i]), paths, archived_paths, env, i + 1)

Merge_undo_restore(a, f, env) ==
    IF Merge_undo_check(f, a.paths, a.archived_paths, 1) # ""
    THEN Raised(Merge_undo_check(f, a.paths, a.archived_paths, 1), f, a)
    ELSE Renamed(Merge_restore_loop(f, a.paths, a.archived_paths, env, 1), a, First(a.paths))

Merge_undo_relocated(a, env, m1) ==
    IF ~m1.ok THEN Raised("PermissionError", m1.fs, a)
    ELSE IF ~a.archive_originals THEN Returned(m1.fs, a, First(a.paths))
    ELSE Merge_undo_restore(Merge_resolve_archived_paths(a, m1.fs), m1.fs, env)

Merge_undo_resolved(a, f, env) ==
    IF ~exists(f, a.out_path) THEN Raised("FileNotFoundError", f, a)
    ELSE Merge_undo_relocated(a, env,
             safe_rename(f, a.out_path,
                         ensure_unique_path(f, Path(get_archive_dir(a.folder_path),
                                                    "undo_archive_" \o a.out_path.base, a.out_path.ext)),
                         env, 1))

\* MergeVideosAction.undo
Merge_undo(a, f, env) == Merge_undo_resolved(Merge_resolve_merged_path(a, f), f, env)

-----
(* Dispatch and records *)

\* the variant's apply()
ActionApply(a, f, env) ==
    CASE a.action_type = "rename" -> Rename_apply(a, f, env)
      [] a.action_type = "trim" -> Trim_apply(a, f, env)
      [] a.action_type = "delete" -> Delete_apply(a, f, env)
      [] OTHER -> Merge_apply(a, f, env)

\* the variant's undo()
ActionUndo(a, f, env) ==
    CASE a.action_type = "rename" -> Rename_undo(a, f, env)
      [] a.action_type = "trim" -> Trim_undo(a, f, env)
      [] a.action_type = "delete" -> Delete_undo(a, f, env)
      [] OTHER -> Merge_undo(a, f, env)

\* UserAction.redo
ActionRedo(a, f, env) == ActionApply(a, f, env)

\* the variant's to_record(), with the id and created_at that execute adds
to_record(a, id) ==
    [action_type |-> a.action_type, folder_path |-> a.folder_path,
     payload |-> [paths |-> a.paths, new_name |-> a.new_name, start |-> a.start, end |-> a.end,
                  archive_originals |-> a.archive_originals, out_path |-> a.out_path,
                  archived_paths |-> a.archived_paths],
     id |-> id, created_at |-> id]

\* a from_record() that does not pass the stored destinations to the constructor
from_record_unresolved(record) ==
    CASE record.action_type = "rename" ->
           RenameVideoAction(record.payload.paths[1], record.payload.new_name, NoPath)
      [] record.action_type = "trim" ->
           TrimVideoAction(record.payload.paths[1], record.payload.new_name,
                           record.payload.start, record.payload.end, NoPath, NoPath)
      [] record.action_type = "delete" ->
           DeleteVideoAction(record.payload.paths[1], NoPath)
      [] OTHER ->
           MergeVideosAction(record.payload.paths[1], record.payload.paths,
                             record.payload.new_name, record.payload.archive_originals,
                             NoPath, <<>>)

\* the variant's from_record(): the constructor on the payload
from_record(record) ==
    LET payload == record.payload
        archived == IF payload.archived_paths = <<>> THEN NoPath ELSE payload.archived_paths[1]
    IN  CASE record.action_type = "rename" ->
               RenameVideoAction(payload.paths[1], payload.new_name, payload.out_path)
          [] record.action_type = "trim" ->
               TrimVideoAction(payload.paths[1], payload.new_name, payload.start, payload.end,
                               payload.out_path, archived)
          [] record.action_type = "delete" ->
               DeleteVideoAction(payload.paths[1], archived)
          [] OTHER ->
               MergeVideosAction(payload.paths[1], payload.paths, payload.new_name,
                                 payload.archive_originals, payload.out_path, payload.archived_paths)

\* action_factory.create_action_from_record
create_action_from_record(record) == from_record(record)

NoAction == Action("", "", <<>>, "", "", "", FALSE, NoPath, <<>>)

NoRecord == to_record(NoAction, 0)

-----------------------------------------------------------------------------
(* ActionHistoryService *)

DefaultState == [version |-> 1, cursor |-> -1, actions |-> <<>>]

\* a history.json that does not exist
NoFile == [exists |-> FALSE, doc |-> DefaultState]

\* ActionHistoryService._load_state
load_state(file) == IF ~file.exists THEN DefaultState ELSE file.doc

\* ActionHistoryService._save_state
save_state(state) == [exists |-> TRUE, doc |-> state]

\* a file that holds only the beginning of the JSON text of state
TornFile(state) == [exists |-> TRUE, doc |-> state, torn |-> TRUE]

\* a _save_state that opens history.json itself for writing
save_opened_in_place(path_file, temp_file, state) ==
    [path |-> TornFile(state), temp |-> temp_file]

\* ActionHistoryService._save_state, open(temp_path, "w"): history.json and
\* history.json.tmp once the temp file is created or truncated and while
\* json.dump writes into it
save_opened(path_file, temp_file, state) == [path |-> path_file, temp |-> TornFile(state)]

\* ActionHistoryService._save_state after json.dump, flush and fsync
save_dumped(path_file, temp_file, state) == [path |-> path_file, temp |-> save_state(state)]

\* ActionHistoryService._save_state, os.replace(temp_path, path)
save_promoted(path_file, temp_file) == [path |-> temp_file, temp |-> NoFile]

Max(x, y) == IF x > y THEN x ELSE y

\* Python's seq[:n]
PySliceTo(seq, n) ==
    IF n >= 0 THEN SubSeq(seq, 1, Min(n, Len(seq))) ELSE SubSeq(seq, 1, Max(Len(seq) + n, 0))

\* Python's seq[i]: whether it raises IndexError, and its value
PyIndexRaises(seq, i) == i >= Len(seq) \/ i < 0 - Len(seq)

PyIndex(seq, i) ==
    IF PyIndexRaises(seq, i) THEN NoRecord
    ELSE IF i >= 0 THEN seq[i + 1] ELSE seq[Len(seq) + i + 1]

\* a _truncate_redo_tail that keeps the redo tail
truncate_redo_tail_kept(state) == state

\* ActionHistoryService._truncate_redo_tail
truncate_redo_tail(state) ==
    IF state.cursor < Len(state.actions) - 1
    THEN [state EXCEPT !.actions = PySliceTo(state.actions, state.cursor + 1)]
    ELSE state

\* what a call of the service gives: whether it returned, the exception, the
\* history.json and the filesystem it leaves, whether an action method ran,
\* the record it acted on and the path of its result
Outcome(ok, err, file, f, ran, record, result) ==
    [ok |-> ok, err |-> err, file |-> file, fs |-> f, ran |-> ran, record |-> record, result |-> result]

\* an execute that sets the cursor to len(actions) after the append
execute_applied_len(file, state, r, record) ==
    IF ~r.ok THEN Outcome(FALSE, r.err, file, r.fs, TRUE, NoRecord, NoPath)
    ELSE Outcome(TRUE, "",
                 save_state([state EXCEPT !.actions = Append(state.actions, record),
                                          !.cursor = Len(state.actions) + 1]),
                 r.fs, TRUE, record, r.result)

\* ActionHistoryService.execute, lines 22-29: after action.apply() gave r
execute_applied(file, state, r, record) ==
    IF ~r.ok THEN Outcome(FALSE, r.err, file, r.fs, TRUE, NoRecord, NoPath)
    ELSE Outcome(TRUE, "",
                 save_state([state EXCEPT !.actions = Append(state.actions, record),
                                          !.cursor = Len(state.actions) + 1 - 1]),
                 r.fs, TRUE, record, r.result)

\* an execute that saves the truncated state before action.apply()
execute_loaded_saved(file, state, r, id) ==
    execute_applied(save_state(state), state, r, to_record(r.action, id))

\* ActionHistoryService.execute, lines 21-29: on the loaded and truncated state
execute_loaded(file, state, r, id) == execute_applied(file, state, r, to_record(r.action, id))

\* ActionHistoryService.execute
execute(file, f, action, env, id) ==
    execute_loaded(file, truncate_redo_tail(load_state(file)), ActionApply(action, f, env), id)

\* a test of undo that leaves cursor < 0 to Python's negative indexing
undo_rejects_upper(cursor, actions) == cursor >= Len(actions)

\* the test of ActionHistoryService.undo that raises ValueError
undo_rejects(cursor, actions) == cursor < 0 \/ cursor >= Len(actions)

\* an undo that does not save the decremented cursor
undo_done_unsaved(file, state, record, r) ==
    IF ~r.ok THEN Outcome(FALSE, r.err, file, r.fs, TRUE, record, NoPath)
    ELSE Outcome(TRUE, "", file, r.fs, TRUE, record, r.result)

\* ActionHistoryService.undo, lines 42-49: after action.undo() gave r
undo_done(file, state, record, r) ==
    IF ~r.ok THEN Outcome(FALSE, r.err, file, r.fs, TRUE, record, NoPath)
    ELSE Outcome(TRUE, "", save_state([state EXCEPT !.cursor = state.cursor - 1]),
                 r.fs, TRUE, record, r.result)

\* ActionHistoryService.undo, lines 40-49: on the record it selected
undo_selected(file, state, f, env, record) ==
    undo_done(file, state, record, ActionUndo(create_action_from_record(record), f, env))

\* ActionHistoryService.undo, lines 35-49: on the loaded state
undo_loaded(file, state, f, env) ==
    IF undo_rejects(state.cursor, state.actions)
    THEN Outcome(FALSE, "ValueError", file, f, FALSE, NoRecord, NoPath)
    ELSE IF PyIndexRaises(state.actions, state.cursor)
    THEN Outcome(FALSE, "IndexError", file, f, FALSE, NoRecord, NoPath)
    ELSE undo_selected(file, state, f, env, PyIndex(state.actions, state.cursor))

\* ActionHistoryService.undo
undo(file, f, env) == undo_loaded(file, load_state(file), f, env)

\* the test of ActionHistoryService.redo that raises ValueError
redo_rejects(next_index, actions) == next_index < 0 \/ next_index >= Len(actions)

\* a redo that sets the cursor to len(actions) - 1
redo_done_top(file, state, record, r) ==
    IF ~r.ok THEN Outcome(FALSE, r.err, file, r.fs, TRUE, record, NoPath)
    ELSE Outcome(TRUE, "", save_state([state EXCEPT !.cursor = Len(state.actions) - 1]),
                 r.fs, TRUE, record, r.result)

\* a redo that drops the records after the one it applied
redo_done_dropping(file, state, record, r) ==
    IF ~r.ok THEN Outcome(FALSE, r.err, file, r.fs, TRUE, record, NoPath)
    ELSE Outcome(TRUE, "",
                 save_state([state EXCEPT !.actions = PySliceTo(state.actions, state.cursor + 2),
                                          !.cursor = state.cursor + 1]),
                 r.fs, TRUE, record, r.result)

\* ActionHistoryService.redo, lines 63-70: after action.redo() gave r
redo_done(file, state, record, r) ==
    IF ~r.ok THEN Outcome(FALSE, r.err, file, r.fs, TRUE, record, NoPath)
    ELSE Outcome(TRUE, "", save_state([state EXCEPT !.cursor = state.cursor + 1]),
                 r.fs, TRUE, record, r.result)

\* a redo that saves the advanced cursor before action.redo()
redo_selected_saved(file, state, f, env, record) ==
    redo_done(save_state([state EXCEPT !.cursor = state.cursor + 1]), state, record,
              ActionRedo(create_action_from_record(record), f, env))

\* ActionHistoryService.redo, lines 61-70: on the record it selected
redo_selected(file, state, f, env, record) ==
    redo_done(file, state, record, ActionRedo(create_action_from_record(record), f, env))

\* ActionHistoryService.redo, lines 55-70: on the loaded state
redo_loaded(file, state, f, env) ==
    IF redo_rejects(state.cursor + 1, state.actions)
    THEN Outcome(FALSE, "ValueError", file, f, FALSE, NoRecord, NoPath)
    ELSE IF PyIndexRaises(state.actions, state.cursor + 1)
    THEN Outcome(FALSE, "IndexError", file, f, FALSE, NoRecord, NoPath)
    ELSE redo_selected(file, state, f, env, PyIndex(state.actions, state.cursor + 1))

\* ActionHistoryService.redo
redo(file, f, env) == redo_loaded(file, load_state(file), f, env)

\* the concurrent callers: two threads of one server process, and another process
Callers == {"t1", "t2", "p2"}

ProcessOf(c) == IF c = "p2" THEN "P2" ELSE "P1"

\* a lock that a process owns, as fcntl.lockf gives: the threads of the owning
\* process are all granted it
lockf_granted(holders, c) == \A h \in holders : ProcessOf(h) = ProcessOf(c)

\* a shared lock, as flock(LOCK_SH) gives: no holder is refused
flock_shared_granted(holders, c) == TRUE

\* FolderLock._acquire: whether flock(LOCK_EX | LOCK_NB) on the caller's own
\* open history.lock (msvcrt.locking(LK_NBLCK) on its first byte) succeeds
\* while the open files of holders hold the lock
flock_granted(holders, c) == holders \ {c} = {}

\* FolderLock.__enter__, read(1) on the caller's newly opened history.lock:
\* whether it raises. Under os.name "nt" the first byte of the file is locked
\* by msvcrt.locking while somebody holds the lock, and a read of a locked
\* byte through any other handle is refused (PermissionError); a flock does
\* not stop a read.
read_refused(name, holders, c) == name = "nt" /\ holders \ {c} # {}

\* a wait that would give up at the first failed attempt
acquire_timed_out_at_once(waited) == waited >= 0

\* FolderLock._acquire: whether the wait has reached timeout_seconds
acquire_timed_out(waited) == waited >= MaxPolls

\* FolderLock.__enter__: history.lock is created, and "0" written when it is empty
lock_file_entered(content) == IF content = "" THEN "0" ELSE content

-----------------------------------------------------------------------------------------------------------------------------------------------------
(* The folder under review and what its user asks for *)

FileA == Path(Folder, "a", ".mp4")

FileB == Path(Folder, "b", ".mp4")

FileC == Path(Folder, "c", ".mp4")

\* a path at which no file ever exists
Missing == Path(Folder, "zz", ".mp4")

\* a file of another folder
Elsewhere == Path("G", "a", ".mp4")

InitialFiles == (FileA :> "A") @@ (FileB :> "B") @@ (FileC :> "C")

\* the names, the trim bounds and the clip lists that requests carry
NewNames == {"b", "undo"}

MergeLists == {<<FileA, FileB>>, <<FileA, FileB, FileC>>}

BadMergeLists ==
    {<<FileA>>, <<FileB, FileB>>, <<FileA, FileB, FileC, Missing>>, <<FileA, Elsewhere>>}

\* the faults a call can meet: none, the external tool failing with or without
\* a partial output, the k-th rename failing, and with either of them some of
\* the cleanup steps failing too
CleanupFaults(renames) ==
    {e \in Envs : /\ e.tool \/ e.failAt = 0
                  /\ e.failAt <= renames
                  /\ e.partial => ~e.tool
                  /\ e.keep # {} => (~e.tool \/ e.failAt > 0)}

\* the same, in calls whose cleanup steps all succeed
Faults(renames) == {e \in CleanupFaults(renames) : e.keep = {}}

\* the files of the folder itself, and of its archive directory
FolderFiles(f) == {p \in DOMAIN f : p.dir = Folder}

ArchiveFiles(f) == {p \in DOMAIN f : p.dir = get_archive_dir(Folder)}

\* the paths the records of the history name
RecordPaths(record) ==
    Range(record.payload.paths) \cup Range(record.payload.archived_paths)
        \cup ({record.payload.out_path} \ {NoPath})

\* the paths that the next undo or the next redo of the folder works on
NextPaths(file) ==
    UNION {RecordPaths(file.doc.actions[i]) :
               i \in DOMAIN file.doc.actions \cap {file.doc.cursor + 1, file.doc.cursor + 2}}

\* what the last step was and did: the call, its outcome, and the history.json
\* and the files it found.  For an undo that directly follows the successful
\* execute or redo of the same record, roundTrip holds and pre is the
\* filesystem that the execute or redo found.
Observation(op, out, file0, fs0, roundTrip, pre) ==
    [op |-> op, ok |-> out.ok, err |-> out.err, ran |-> out.ran, record |-> out.record,
     result |-> out.result, file0 |-> file0, fs0 |-> fs0, roundTrip |-> roundTrip, pre |-> pre]

Observed(op, out, file0, fs0) ==
    IF op = "undo" /\ last.op \in {"execute", "redo"} /\ last.ok
    THEN Observation(op, out, file0, fs0, TRUE, last.fs0)
    ELSE Observation(op, out, file0, fs0, FALSE, <<>>)

NoOutcome == Outcome(TRUE, "", NoFile, <<>>, FALSE, NoRecord, NoPath)

NoLast == Observation("", NoOutcome, NoFile, <<>>, FALSE, <<>>)

\* what apply() did in a call: the action with the paths it resolved, whether
\* it returned or what it raised, and the faults that made it raise
Applied(env, out) ==
    [action |-> out.action, env |-> IF out.ok THEN NoFault ELSE env, ok |-> out.ok, err |-> out.err]

NoApplied == Applied(NoFault, Returned(<<>>, NoAction, NoPath))

\* a caller between calls, after n of them (a caller that has returned keeps
\* what its last call was, how long it waited and what it gave)
Idle(n) ==
    [pc |-> "idle", op |-> "", action |-> NoAction, waited |-> 0,
     file |-> NoFile, out |-> NoOutcome, calls |-> n]

\* the request threads of the server that stream videos, and those that
\* serve POST /api/action
StreamThreads == {"s1", "s2"}

DeleteThreads == {"t1", "t2"}

\* a thread that serves no GET /api/video; reads counts its requests so far,
\* entered and exited how often its last generate() changed the registry
NoStream ==
    [pc |-> "idle", path |-> NoPath, file_opened |-> FALSE, left |-> 0, sent |-> 0,
     how |-> "", reads |-> 0, entered |-> 0, exited |-> 0]

\* a thread that serves no POST /api/action
NoDrain ==
    [pc |-> "idle", action |-> NoAction, count |-> 0, elapsed |-> 0, notified |-> FALSE,
     call |-> 0]

\* no call of safe_rename
NoRename == [pc |-> "idle", outcomes |-> <<>>, i |-> 0, slept |-> 0, err |-> ""]

\* folders that hold files and the history.json file each, with no call in
\* progress, on a machine whose os.name is name
InitFoldersWith(dirs, files, file, name) ==
    /\ fs = files
    /\ history = [d \in dirs |-> file]
    /\ lockFile = [d \in dirs |-> ""]
    /\ nextId = 1
    /\ nExternal = 0
    /\ nUndo = 0
    /\ nFailed = 0
    /\ last = NoLast
    /\ callers = [c \in Callers |-> Idle(0)]
    /\ held = [d \in dirs |-> {}]
    /\ os_name = name
    /\ tmpFile = [d \in dirs |-> NoFile]
    /\ applied = NoApplied
    /\ active_video_stream_counts = <<>>
    /\ active_video_stream_counts_lock = ""
    /\ streams = [s \in StreamThreads |-> NoStream]
    /\ drain = [d \in DeleteThreads |-> NoDrain]
    /\ responses = <<>>

\* the folder under review
InitFolderWith(files, file, name) == InitFoldersWith(Folders, files, file, name)

\* the same, before the first call
InitFolder(files, name) == InitFolderWith(files, NoFile, name)

\* the same, with no rename in progress
InitWith(files, name) ==
    /\ InitFolder(files, name)
    /\ rename_call = NoRename

\* the folder before the first call, on a machine whose os.name is name
InitOn(name) == InitWith(InitialFiles, name)

\* calls that follow one another behave alike on every machine
Init == InitOn("posix")

\* one call of the service on a folder, from its FolderLock.__enter__ to its
\* FolderLock.__exit__, with the outcome out
Serves(limit, op, folder, out) ==
    /\ nFailed < MaxFailed
    /\ (op = "execute" /\ out.ok) => nextId <= limit
    /\ (op = "undo" /\ out.ok) => nUndo < MaxUndo
    /\ fs' = out.fs
    /\ history' = [history EXCEPT ![folder] = out.file]
    /\ lockFile' = [lockFile EXCEPT ![folder] = lock_file_entered(@)]
    /\ nextId' = IF op = "execute" /\ out.ok THEN nextId + 1 ELSE nextId
    /\ nUndo' = IF op = "undo" /\ out.ok THEN nUndo + 1 ELSE nUndo
    /\ nFailed' = IF out.ok THEN nFailed ELSE nFailed + 1
    /\ last' = Observed(op, out, history[folder], fs)
    /\ UNCHANGED <<nExternal, callers, held, os_name, tmpFile, served>>

\* the same, seen from outside
Within(limit, op, folder, out) ==
    /\ Serves(limit, op, folder, out)
    /\ UNCHANGED applied

Called(op, folder, out) == Within(MaxExec, op, folder, out)

\* one call of history_service.execute(action)
Execute(action, env) ==
    Called("execute", action.folder_path,
           execute(history[action.folder_path], fs, action, env, nextId))

\* the files a request names: those of the folder (c.mp4 is only ever merged), or none
Sources == (FolderFiles(fs) \ {FileC}) \cup {Missing}

ExecuteRename ==
    \/ \E src \in Sources, name \in NewNames, env \in Faults(1) :
           Execute(RenameVideoAction(src, name, NoPath), env)
    \/ Execute(RenameVideoAction(FileA, " ", NoPath), NoFault)

ExecuteTrim ==
    \/ \E src \in Sources, name \in NewNames, env \in Faults(2) :
           Execute(TrimVideoAction(src, name, "5", "", NoPath, NoPath), env)
    \/ \E t \in {<<"b", "", "9">>, <<"", "5", "9">>} :
           Execute(TrimVideoAction(FileA, t[1], t[2], t[3], NoPath, NoPath), NoFault)

ExecuteDelete ==
    \E src \in Sources, env \in Faults(1) :
        Execute(DeleteVideoAction(src, NoPath), env)

ExecuteMerge ==
    \/ \E paths \in MergeLists, archive \in BOOLEAN, env \in Faults(4) :
           Execute(MergeVideosAction(paths[1], paths, "b", archive, NoPath, <<>>), env)
    \/ \E paths \in BadMergeLists :
           Execute(MergeVideosAction(paths[1], paths, "b", TRUE, NoPath, <<>>), NoFault)
    \/ Execute(MergeVideosAction(FileA, <<FileA, FileB>>, "", TRUE, NoPath, <<>>), NoFault)

\* one call of history_service.undo(folder)
Undo ==
    \E folder \in Folders, env \in {e \in Faults(4) : e.tool} :
        Called("undo", folder, undo(history[folder], fs, env))

\* one call of history_service.redo(folder)
Redo ==
    \E folder \in Folders, env \in Faults(4) :
        Called("redo", folder, redo(history[folder], fs, env))

External(f) ==
    /\ nExternal < MaxExternal
    /\ nFailed < MaxFailed
    /\ fs' = f
    /\ nExternal' = nExternal + 1
    /\ last' = Observed("external", NoOutcome, NoFile, fs)
    /\ UNCHANGED <<history, lockFile, nextId, nUndo, nFailed, callers, held, os_name, tmpFile,
                   applied, served>>

\* the user removes, by hand, a file that the next undo or redo works on
ExternalRemove ==
    \E folder \in Folders :
        \E p \in NextPaths(history[folder]) \cap DOMAIN fs : External(Remove(fs, p))

\* the user drops a file at a path that the next undo or redo works on
ExternalCreate ==
    \E folder \in Folders :
        \E p \in NextPaths(history[folder]) \ DOMAIN fs : External(Create(fs, p, "X"))

\* the service alone on the folder
Next ==
    \/ ExecuteRename
    \/ ExecuteTrim
    \/ ExecuteDelete
    \/ ExecuteMerge
    \/ Undo
    \/ Redo

Spec == Init /\ [][Next]_vars

\* the first action of a folder, undone and redone while the user also changes
\* the folder by hand
FirstExecute ==
    /\ load_state(history[Folder]).actions = <<>>
    /\ (ExecuteRename \/ ExecuteTrim \/ ExecuteDelete \/ ExecuteMerge)

NextExt ==
    \/ FirstExecute
    \/ Undo
    \/ Redo
    \/ ExternalRemove
    \/ ExternalCreate

SpecExt == Init /\ [][NextExt]_vars

\* Longer histories of the two plain moves: a rename or a delete that no fault
\* disturbs, up to MaxTail of them, with every undo and redo in between.
ExecuteTail ==
    \E src \in Sources, name \in NewNames :
        \E action \in {RenameVideoAction(src, name, NoPath), DeleteVideoAction(src, NoPath)} :
            Within(MaxTail, "execute", Folder,
                   execute(history[Folder], fs, action, NoFault, nextId))

NextTail ==
    \/ ExecuteTail
    \/ Undo
    \/ Redo

SpecTail == Init /\ [][NextTail]_vars

\* Renames in folders where some of the names b.mp4, "b (2).mp4", ... are taken
MaxIndex == 4

NumberedNames == {Path(Folder, "b", ".mp4")} \cup {Path(Folder, "b (" \o ToString(n) \o ")", ".mp4") : n \in 2..MaxIndex}

InitUnique ==
    \E taken \in SUBSET NumberedNames :
        InitWith([p \in {FileA} \cup taken |-> IF p = FileA THEN "A" ELSE "B"], "posix")

NextUnique ==
    \/ ExecuteRename
    \/ Undo
    \/ Redo

SpecUnique == InitUnique /\ [][NextUnique]_vars

\* the temp output name of a call carries the pid and the clock's milliseconds:
\* no file of an earlier call has it
temp_output_fresh(action, f) ==
    /\ ~exists(f, Trim_build_temp_output_path(action))
    /\ ~exists(f, Merge_build_temp_output_path(action))

\* Trims and merges whose tool run, renames and cleanup steps may all fail
ExecuteFault(action, env) ==
    /\ Serves(MaxExec, "execute", action.folder_path,
              execute(history[action.folder_path], fs, action, env, nextId))
    /\ applied' = Applied(env, ActionApply(action, fs, env))
    /\ temp_output_fresh(action, fs)

\* the second disjunct: requests that name no start, or no new name
ExecuteTrimFault ==
    \/ \E src \in Sources, name \in NewNames, env \in CleanupFaults(2) :
           ExecuteFault(TrimVideoAction(src, name, "5", "", NoPath, NoPath), env)
    \/ \E src \in Sources, t \in {<<"b", "", "9">>, <<"b", "", "">>, <<"", "5", "9">>},
          env \in Faults(2) :
           ExecuteFault(TrimVideoAction(src, t[1], t[2], t[3], NoPath, NoPath), env)

\* the second and third disjunct: requests that name too few or too many
\* clips, one clip twice, clips of two folders, or no new name
ExecuteMergeFault ==
    \/ \E paths \in MergeLists, archive \in BOOLEAN, env \in CleanupFaults(4) :
           ExecuteFault(MergeVideosAction(paths[1], paths, "b", archive, NoPath, <<>>), env)
    \/ \E paths \in BadMergeLists, env \in Faults(4) :
           ExecuteFault(MergeVideosAction(paths[1], paths, "b", TRUE, NoPath, <<>>), env)
    \/ \E paths \in MergeLists, env \in Faults(4) :
           ExecuteFault(MergeVideosAction(paths[1], paths, "", TRUE, NoPath, <<>>), env)

NextFault ==
    \/ ExecuteTrimFault
    \/ ExecuteMergeFault
    \/ Undo

SpecFault == Init /\ [][NextFault]_vars

-----------------------------------------------------------------------------
(* Concurrent calls on one folder, step by step *)

\* what the concurrent callers ask for
Requests ==
    {[op |-> "execute", action |-> RenameVideoAction(FileA, "b", NoPath)],
     [op |-> "execute", action |-> DeleteVideoAction(FileB, NoPath)],
     [op |-> "undo", action |-> NoAction],
     [op |-> "redo", action |-> NoAction]}

\* the call of caller c moves on: its record changes as given
Steps(c, rec) ==
    /\ callers' = [callers EXCEPT ![c] = rec]
    /\ UNCHANGED <<nExternal, nUndo, nFailed, last, os_name, applied, served>>

\* the same, for the steps that leave history.json.tmp alone
Moves(c, rec) ==
    /\ Steps(c, rec)
    /\ UNCHANGED tmpFile

\* the folder that a request is about: that of its action, and the folder
\* under review when it names none
RequestFolder(req) ==
    IF req.action.folder_path = "" THEN Folder ELSE req.action.folder_path

\* the folder of the call that caller c is making
FolderOf(c) == RequestFolder(callers[c])

\* FolderLock.__enter__ up to _acquire(): history.lock is opened, and created
\* and filled when absent
EnterWith(c, requests) ==
    /\ callers[c].pc = "idle"
    /\ callers[c].calls < MaxCalls
    /\ \E req \in requests :
          /\ ~read_refused(os_name, held[RequestFolder(req)], c)
          /\ Moves(c, [callers[c] EXCEPT !.pc = "acquire", !.op = req.op,
                                         !.action = req.action, !.waited = 0])
          /\ lockFile' = [lockFile EXCEPT ![RequestFolder(req)] = lock_file_entered(@)]
    /\ UNCHANGED <<fs, history, nextId, held>>

Enter(c) == EnterWith(c, Requests)

\* FolderLock.__enter__ where read(1) raises: the call ends with that
\* exception before _acquire() is reached
EnterRefusedWith(c, requests) ==
    /\ callers[c].pc = "idle"
    /\ callers[c].calls < MaxCalls
    /\ \E req \in requests :
          /\ read_refused(os_name, held[RequestFolder(req)], c)
          /\ Moves(c, [Idle(callers[c].calls + 1) EXCEPT
                          !.op = req.op,
                          !.action = req.action,
                          !.out = Outcome(FALSE, "PermissionError", NoFile, <<>>, FALSE,
                                          NoRecord, NoPath)])
    /\ UNCHANGED <<fs, history, lockFile, nextId, held>>

EnterRefused(c) == EnterRefusedWith(c, Requests)

\* a with-block that would go on to _load_state without taking the lock
Acquire_unlocked(c) ==
    /\ callers[c].pc = "acquire"
    /\ Moves(c, [callers[c] EXCEPT !.pc = "load"])
    /\ UNCHANGED <<fs, history, lockFile, nextId, held>>

\* FolderLock._acquire: the attempt that gets the lock
Acquire(c) ==
    /\ callers[c].pc = "acquire"
    /\ flock_granted(held[FolderOf(c)], c)
    /\ held' = [held EXCEPT ![FolderOf(c)] = @ \cup {c}]
    /\ Moves(c, [callers[c] EXCEPT !.pc = "load"])
    /\ UNCHANGED <<fs, history, lockFile, nextId>>

\* FolderLock._acquire: an attempt that fails, and the sleep after it
Poll(c) ==
    /\ callers[c].pc = "acquire"
    /\ ~flock_granted(held[FolderOf(c)], c)
    /\ ~acquire_timed_out(callers[c].waited)
    /\ Moves(c, [callers[c] EXCEPT !.waited = @ + 1])
    /\ UNCHANGED <<fs, history, lockFile, nextId, held>>

\* FolderLock._acquire: an attempt that fails after timeout_seconds; the call
\* raises TimeoutError out of __enter__
TimedOut(c) ==
    /\ callers[c].pc = "acquire"
    /\ ~flock_granted(held[FolderOf(c)], c)
    /\ acquire_timed_out(callers[c].waited)
    /\ Moves(c, [Idle(callers[c].calls + 1) EXCEPT
                    !.out = Outcome(FALSE, "TimeoutError", NoFile, <<>>, FALSE, NoRecord, NoPath)])
    /\ UNCHANGED <<fs, history, lockFile, nextId, held>>

\* ActionHistoryService._load_state in execute, undo and redo
Load(c) ==
    /\ callers[c].pc = "load"
    /\ Moves(c, [callers[c] EXCEPT !.pc = "act", !.file = history[FolderOf(c)]])
    /\ UNCHANGED <<fs, history, lockFile, nextId, held>>

\* what the call of c does between _load_state and _save_state, on the
\* history.json that it loaded and the files as they are now
RunsWith(c, env) ==
    CASE callers[c].op = "execute" ->
           execute(callers[c].file, fs, callers[c].action, env, nextId)
      [] callers[c].op = "undo" -> undo(callers[c].file, fs, env)
      [] OTHER -> redo(callers[c].file, fs, env)

\* the same, when no tool and no rename fails
Runs(c) == RunsWith(c, NoFault)

Acted(c, out) ==
    /\ fs' = out.fs
    /\ nextId' = IF callers[c].op = "execute" /\ out.ok THEN nextId + 1 ELSE nextId
    /\ Moves(c, [callers[c] EXCEPT !.pc = IF out.ok THEN "save" ELSE "release", !.out = out])
    /\ UNCHANGED <<history, lockFile, held>>

\* the body of execute, undo or redo from the truncation or the range test to
\* the new cursor; an exception leaves the with-block without _save_state
Act(c) ==
    /\ callers[c].pc = "act"
    /\ Acted(c, Runs(c))

\* a service that keeps one history.json for all folders
Save_single(c) ==
    /\ callers[c].pc = "save"
    /\ history' = [history EXCEPT ![Folder] = callers[c].out.file]
    /\ Moves(c, [callers[c] EXCEPT !.pc = "release"])
    /\ UNCHANGED <<fs, lockFile, nextId, held>>

\* ActionHistoryService._save_state at the end of execute, undo and redo
Save(c) ==
    /\ callers[c].pc = "save"
    /\ history' = [history EXCEPT ![FolderOf(c)] = callers[c].out.file]
    /\ Moves(c, [callers[c] EXCEPT !.pc = "release"])
    /\ UNCHANGED <<fs, lockFile, nextId, held>>

\* a FolderLock.__exit__ that releases the lock only when the body returned
Release_returned(c) ==
    /\ callers[c].pc = "release"
    /\ held' = [held EXCEPT ![FolderOf(c)] = IF callers[c].out.ok THEN @ \ {c} ELSE @]
    /\ Moves(c, [Idle(callers[c].calls + 1) EXCEPT !.out = callers[c].out,
                                                   !.op = callers[c].op,
                                                   !.waited = callers[c].waited])
    /\ UNCHANGED <<fs, history, lockFile, nextId>>

\* FolderLock.__exit__: the lock is released and history.lock closed
Release(c) ==
    /\ callers[c].pc = "release"
    /\ held' = [held EXCEPT ![FolderOf(c)] = @ \ {c}]
    /\ Moves(c, [Idle(callers[c].calls + 1) EXCEPT !.out = callers[c].out,
                                                   !.op = callers[c].op,
                                                   !.waited = callers[c].waited])
    /\ UNCHANGED <<fs, history, lockFile, nextId>>

NextLock ==
    \E c \in Callers :
        \/ Enter(c)
        \/ EnterRefused(c)
        \/ Acquire(c)
        \/ Poll(c)
        \/ TimedOut(c)
        \/ Load(c)
        \/ Act(c)
        \/ Save(c)
        \/ Release(c)

\* the machines the server runs on
OsNames == {"posix", "nt"}

InitLock == \E name \in OsNames : InitOn(name)

SpecLock == InitLock /\ [][NextLock]_vars

-----------------------------------------------------------------------------
(* Concurrent calls that fail inside the with-block *)

\* the record of a Rename of a.mp4 to "b" that found b.mp4 in the folder
StoredRename == to_record(RenameVideoAction(FileA, "b", Path(Folder, "b (2)", ".mp4")), 0)

\* requests that raise in the body of execute, undo or redo: an empty name,
\* a missing file, a Trim whose tool may fail, a redo whose stored destination
\* is occupied, and an undo
FailingRequests ==
    {[op |-> "execute", action |-> RenameVideoAction(FileA, " ", NoPath)],
     [op |-> "execute", action |-> DeleteVideoAction(Missing, NoPath)],
     [op |-> "execute", action |-> TrimVideoAction(FileA, "b", "5", "", NoPath, NoPath)],
     [op |-> "undo", action |-> NoAction],
     [op |-> "redo", action |-> NoAction]}

\* the body of execute, undo or redo, in which the tool or a rename may fail
ActFault(c) ==
    /\ callers[c].pc = "act"
    /\ \E env \in Faults(1) : Acted(c, RunsWith(c, env))

\* a folder whose one Rename was undone, after which the user has dropped a
\* file at the destination that the record stores
InitRelease ==
    \E name \in OsNames :
        /\ InitFolderWith(InitialFiles @@ (Path(Folder, "b (2)", ".mp4") :> "X"),
                          save_state([version |-> 1, cursor |-> -1, actions |-> <<StoredRename>>]),
                          name)
        /\ rename_call = NoRename

NextRelease ==
    \E c \in DeleteThreads :
        \/ EnterWith(c, FailingRequests)
        \/ EnterRefusedWith(c, FailingRequests)
        \/ Acquire(c)
        \/ Poll(c)
        \/ TimedOut(c)
        \/ Load(c)
        \/ ActFault(c)
        \/ Save(c)
        \/ Release(c)

SpecRelease == InitRelease /\ [][NextRelease]_vars

-----------------------------------------------------------------------------
(* Concurrent calls on two folders *)

\* a second folder, the one that holds Elsewhere
OtherFolder == Elsewhere.dir

BothFolders == {Folder, OtherFolder}

\* FolderLock.__enter__: the path of the lock file of a folder
lock_path(folder_path) == folder_path \o "/.video_reviewer" \o "/history.lock"

\* ActionHistoryService._state_file_path
state_file_path(folder_path) == folder_path \o "/.video_reviewer" \o "/history.json"

\* an undo of the last action of a folder
UndoIn(folder) == [op |-> "undo", action |-> [NoAction EXCEPT !.folder_path = folder]]

\* what the concurrent callers ask for, in the one folder and in the other
RequestsBoth ==
    {[op |-> "execute", action |-> RenameVideoAction(FileA, "b", NoPath)],
     UndoIn(Folder),
     [op |-> "execute", action |-> DeleteVideoAction(Elsewhere, NoPath)],
     UndoIn(OtherFolder)}

InitBoth ==
    \E name \in OsNames :
        /\ InitFoldersWith(BothFolders, InitialFiles @@ (Elsewhere :> "E"), NoFile, name)
        /\ rename_call = NoRename

NextBoth ==
    \E c \in Callers :
        \/ EnterWith(c, RequestsBoth)
        \/ EnterRefusedWith(c, RequestsBoth)
        \/ Acquire(c)
        \/ Poll(c)
        \/ TimedOut(c)
        \/ Load(c)
        \/ Act(c)
        \/ Save(c)
        \/ Release(c)

SpecBoth == InitBoth /\ [][NextBoth]_vars

-----------------------------------------------------------------------------
(* Calls whose process may die, with _save_state step by step *)

\* the callers of these runs: one thread of the server, and another process
CrashCallers == {"t1", "p2"}

\* _save_state has run up to and including the step that gives saved
SaveStep(c, pc, saved) ==
    /\ history' = [history EXCEPT ![Folder] = saved.path]
    /\ tmpFile' = [tmpFile EXCEPT ![Folder] = saved.temp]
    /\ Steps(c, [callers[c] EXCEPT !.pc = pc])
    /\ UNCHANGED <<fs, lockFile, nextId, held>>

\* _save_state: the temp file is opened for writing
SaveOpen(c) ==
    /\ callers[c].pc = "save"
    /\ SaveStep(c, "dump", save_opened(history[Folder], tmpFile[Folder], callers[c].out.file.doc))

\* _save_state: the state is written to the temp file and synced
SaveDump(c) ==
    /\ callers[c].pc = "dump"
    /\ SaveStep(c, "promote", save_dumped(history[Folder], tmpFile[Folder], callers[c].out.file.doc))

\* _save_state: the temp file replaces history.json
SavePromote(c) ==
    /\ callers[c].pc = "promote"
    /\ SaveStep(c, "release", save_promoted(history[Folder], tmpFile[Folder]))

\* the process of c dies during its call: its open history.lock is closed,
\* which gives up the lock; the files stay as they are
Crash(c) ==
    /\ callers[c].pc # "idle"
    /\ held' = [held EXCEPT ![Folder] = @ \ {c}]
    /\ Moves(c, [Idle(callers[c].calls + 1) EXCEPT !.op = "crash",
                                                   !.file = callers[c].file,
                                                   !.out = callers[c].out])
    /\ UNCHANGED <<fs, history, lockFile, nextId>>

NextCrash ==
    \E c \in CrashCallers :
        \/ Enter(c)
        \/ Acquire(c)
        \/ Poll(c)
        \/ TimedOut(c)
        \/ Load(c)
        \/ Act(c)
        \/ SaveOpen(c)
        \/ SaveDump(c)
        \/ SavePromote(c)
        \/ Release(c)
        \/ Crash(c)

SpecCrash == Init /\ [][NextCrash]_vars

-----------------------------------------------------------------------------
(* file_ops.safe_rename, attempt by attempt *)

\* the defaults of safe_rename; delay in milliseconds
retries == 5

delay == 100

\* what an attempt of os.rename can do: rename the file, find it in use (another
\* process or a reader has it open), or find it gone
RenameOutcomes == {"ok", "PermissionError", "FileNotFoundError"}

\* a safe_rename that goes on after any exception
rename_retried_any(err, i) == i < retries - 1

\* safe_rename, lines 16-18: the exception of attempt i is caught and another
\* attempt follows
rename_retried(err, i) == err = "PermissionError" /\ i < retries - 1

\* a call of safe_rename whose attempts at os.rename will do as outcomes says
RenameCalls ==
    {[pc |-> "try", outcomes |-> o, i |-> 0, slept |-> 0, err |-> ""] :
        o \in [1 .. retries -> RenameOutcomes]}

\* what the attempt of the running iteration does
Attempted == rename_call.outcomes[rename_call.i + 1]

\* safe_rename, lines 12-20: one iteration up to the return, the raise or the sleep
RenameAttempt ==
    /\ rename_call.pc = "try"
    /\ rename_call' =
           IF Attempted = "ok" THEN [rename_call EXCEPT !.pc = "returned"]
           ELSE IF rename_retried(Attempted, rename_call.i)
                THEN [rename_call EXCEPT !.pc = "sleep"]
           ELSE [rename_call EXCEPT !.pc = "raised", !.err = Attempted]
    /\ UNCHANGED <<folders, registry, responses>>

\* safe_rename, line 18: time.sleep(delay), and the loop goes on
RenameSleep ==
    /\ rename_call.pc = "sleep"
    /\ rename_call' = [rename_call EXCEPT !.pc = "try", !.i = @ + 1, !.slept = @ + delay]
    /\ UNCHANGED <<folders, registry, responses>>

NextRename ==
    \/ RenameAttempt
    \/ RenameSleep

InitRename ==
    /\ InitFolder(InitialFiles, "posix")
    /\ rename_call \in RenameCalls

SpecRename == InitRename /\ [][NextRename]_vars

-----------------------------------------------------------------------------
(* app.py: the registry of the video streams, GET /api/video and the wait of *)
(* POST /api/action before a delete                                          *)

\* requests a stream thread serves, and chunks a range request reads
MaxReads == 1

MaxChunks == 1

\* seconds that pass in one step of the clock
TickSeconds == 8

\* action(): wait_timeout_seconds
wait_timeout_seconds == 15

\* the videos that are asked for and deleted
VideoPaths == {FileA, FileB}

\* _active_video_stream_counts.get(path, default)
counts_get(counts, path, default) == IF path \in DOMAIN counts THEN counts[path] ELSE default

\* _active_video_stream_counts[path] = count
counts_set(counts, path, count) ==
    [p \in DOMAIN counts \cup {path} |-> IF p = path THEN count ELSE counts[p]]

\* _active_video_stream_counts.pop(path, None)
counts_pop(counts, path) == [p \in DOMAIN counts \ {path} |-> counts[p]]

\* a reader that enters its path as the only one
stream_entered_alone(counts, path) == counts_set(counts, path, 1)

\* generate(), lines 409-411: the registry after the reader has entered
stream_entered(counts, path) == counts_set(counts, path, counts_get(counts, path, 0) + 1)

\* generate(), lines 424-429: the registry after the reader has left
stream_exited(counts, path) ==
    IF counts_get(counts, path, 1) - 1 <= 0
    THEN counts_pop(counts, path)
    ELSE counts_set(counts, path, counts_get(counts, path, 1) - 1)

\* a generate() that leaves the registry only after the last chunk
exit_counted_complete(file_opened, how) == file_opened /\ how = "complete"

\* generate(), lines 422-423: the finally clause runs however the generator
\* ended, and leaves the registry when the file had been opened
exit_counted(file_opened, how) == file_opened

\* notify(): one of the threads in wait() is woken
notified_one(waiters) ==
    IF \E d \in DOMAIN waiters : waiters[d].pc = "wait"
    THEN [waiters EXCEPT ![CHOOSE d \in DOMAIN waiters : waiters[d].pc = "wait"].notified = TRUE]
    ELSE waiters

\* _active_video_stream_counts_condition.notify_all(): every thread in wait() is woken
notified_all(waiters) ==
    [d \in DOMAIN waiters |->
        IF waiters[d].pc = "wait" THEN [waiters[d] EXCEPT !.notified = TRUE] ELSE waiters[d]]

\* a wait that goes on whatever time has passed
drain_gives_up_never(remaining) == FALSE

\* action(), lines 498-499: the deadline has passed
drain_gives_up(remaining) == remaining <= 0

\* the stream threads that have the file at path open
Readers(path) ==
    {s \in StreamThreads : streams[s].path = path /\ streams[s].pc \in {"enter", "read", "send"}}

\* os.rename of a file that a thread of the server has open: refused on
\* Windows (the file is opened without delete sharing), done elsewhere
rename_env(name, path) ==
    IF name = "nt" /\ Readers(path) # {} THEN [NoFault EXCEPT !.failAt = 1] ELSE NoFault

\* a step of the GET /api/video that thread s serves
Streams(s, rec) ==
    /\ streams' = [streams EXCEPT ![s] = rec]
    /\ UNCHANGED <<folders, rename_call, responses, active_video_stream_counts_lock>>

\* a request that ended: the thread is free for the next one
Ended(s, how) ==
    [streams[s] EXCEPT !.pc = "idle", !.how = how, !.reads = @ + 1, !.file_opened = FALSE,
                       !.path = NoPath, !.left = 0, !.sent = 0]

\* get_video, lines 377-437: 404 when the file is not there, 416 for a range
\* beyond its end, a response that will run generate() for a range, and
\* send_file for a request without Range header
GetVideo(s) ==
    /\ streams[s].pc = "idle"
    /\ streams[s].reads < MaxReads
    /\ \E path \in VideoPaths, range \in {"", "bytes=0-", "bytes=9-"}, chunks \in 1 .. MaxChunks :
          Streams(s,
              IF ~exists(fs, path)
              THEN [Ended(s, "404") EXCEPT !.entered = 0, !.exited = 0]
              ELSE IF range = "bytes=9-"
                   THEN [Ended(s, "416") EXCEPT !.entered = 0, !.exited = 0]
              ELSE [streams[s] EXCEPT !.pc = IF range = "" THEN "send" ELSE "open",
                                      !.path = path,
                                      !.left = IF range = "" THEN 0 ELSE chunks,
                                      !.how = "", !.entered = 0, !.exited = 0])
    /\ UNCHANGED <<active_video_stream_counts, drain>>

\* generate(), line 407: open(path, 'rb'); when it raises, the finally clause
\* finds file_opened false and does nothing
StreamOpen(s) ==
    /\ streams[s].pc = "open"
    /\ Streams(s, IF exists(fs, streams[s].path)
                  THEN [streams[s] EXCEPT !.pc = "enter", !.file_opened = TRUE]
                  ELSE Ended(s, "error"))
    /\ UNCHANGED <<active_video_stream_counts, drain>>

\* the client is gone before the server asked generate() for a chunk: the
\* generator is closed without having run
StreamAbandon(s) ==
    /\ streams[s].pc = "open"
    /\ Streams(s, Ended(s, "closed"))
    /\ UNCHANGED <<active_video_stream_counts, drain>>

\* generate(), lines 409-411
StreamEnter(s) ==
    /\ streams[s].pc = "enter"
    /\ active_video_stream_counts_lock = ""
    /\ active_video_stream_counts' = stream_entered(active_video_stream_counts, streams[s].path)
    /\ Streams(s, [streams[s] EXCEPT !.pc = "read", !.entered = @ + 1])
    /\ UNCHANGED drain

\* generate(), lines 413-421: a chunk is read and yielded, and the server asks for the next
StreamChunk(s) ==
    /\ streams[s].pc = "read"
    /\ streams[s].left > 0
    /\ Streams(s, [streams[s] EXCEPT !.left = @ - 1, !.sent = @ + 1])
    /\ UNCHANGED <<active_video_stream_counts, drain>>

\* the generator of s ends in this way, the file is closed, and the finally
\* clause of generate(), lines 422-430, runs
StreamExits(s, how) ==
    IF exit_counted(streams[s].file_opened, how)
    THEN /\ active_video_stream_counts_lock = ""
         /\ active_video_stream_counts'
                = stream_exited(active_video_stream_counts, streams[s].path)
         /\ drain' = notified_all(drain)
         /\ Streams(s, [Ended(s, how) EXCEPT !.exited = @ + 1])
    ELSE /\ Streams(s, Ended(s, how))
         /\ UNCHANGED <<active_video_stream_counts, drain>>

\* generate() ends: the range is read, a read raises, or the client is gone
\* and the generator is closed at its yield
StreamExit(s) ==
    /\ streams[s].pc = "read"
    /\ \E how \in {"complete", "error", "closed"} :
          /\ how = "complete" => streams[s].left = 0
          /\ how = "closed" => streams[s].sent > 0
          /\ StreamExits(s, how)

\* the response of send_file has been sent, or its client is gone
StreamSent(s) ==
    /\ streams[s].pc = "send"
    /\ Streams(s, Ended(s, "complete"))
    /\ UNCHANGED <<active_video_stream_counts, drain>>

\* a step of the POST /api/action that thread d serves, before execute
Drains(d, rec) ==
    /\ drain' = [drain EXCEPT ![d] = rec]
    /\ UNCHANGED <<folders, rename_call, responses, active_video_stream_counts, streams>>

\* action(), lines 488-491: a delete arrives
ActionRequest(d) ==
    /\ drain[d].pc = "idle"
    /\ callers[d].pc = "idle"
    /\ callers[d].calls < MaxCalls
    /\ \E a \in {DeleteVideoAction(p, NoPath) : p \in VideoPaths} :
          Drains(d, [NoDrain EXCEPT !.pc = IF a.action_type = "delete" THEN "lock" ELSE "execute",
                                    !.action = a, !.call = callers[d].calls])
    /\ UNCHANGED active_video_stream_counts_lock

\* action(), lines 492-495: the mutex is taken, the count read, the clock started
DrainBegin(d) ==
    /\ drain[d].pc = "lock"
    /\ active_video_stream_counts_lock = ""
    /\ active_video_stream_counts_lock' = d
    /\ Drains(d, [drain[d] EXCEPT
                     !.pc = "test",
                     !.count = counts_get(active_video_stream_counts, drain[d].action.paths[1], 0),
                     !.elapsed = 0])

\* action(), lines 496-500: the loop goes into wait(), which releases the
\* mutex, or ends, and the with-block is left
DrainTest(d) ==
    /\ drain[d].pc = "test"
    /\ active_video_stream_counts_lock' = ""
    /\ Drains(d, IF drain[d].count > 0
                    /\ ~drain_gives_up(wait_timeout_seconds - drain[d].elapsed)
                 THEN [drain[d] EXCEPT !.pc = "wait", !.notified = FALSE]
                 ELSE [drain[d] EXCEPT !.pc = "execute"])

\* condition.wait(timeout=remaining): the thread is notified, or the time is up
DrainWake(d) ==
    /\ drain[d].pc = "wait"
    /\ drain[d].notified \/ drain[d].elapsed >= wait_timeout_seconds
    /\ Drains(d, [drain[d] EXCEPT !.pc = "wake"])
    /\ UNCHANGED active_video_stream_counts_lock

\* wait() takes the mutex again and returns; action(), lines 501-502
DrainReacquire(d) ==
    /\ drain[d].pc = "wake"
    /\ active_video_stream_counts_lock = ""
    /\ active_video_stream_counts_lock' = d
    /\ Drains(d, [drain[d] EXCEPT
                     !.pc = "test",
                     !.count = counts_get(active_video_stream_counts, drain[d].action.paths[1], 0)])

\* time passes for the threads in wait()
Tick ==
    /\ \E d \in DeleteThreads :
          drain[d].pc \in {"wait", "wake"} /\ drain[d].elapsed < wait_timeout_seconds
    /\ drain' = [d \in DeleteThreads |->
                    IF drain[d].pc \in {"wait", "wake"}
                    THEN [drain[d] EXCEPT
                             !.elapsed = IF @ + TickSeconds >= wait_timeout_seconds
                                         THEN wait_timeout_seconds ELSE @ + TickSeconds]
                    ELSE drain[d]]
    /\ UNCHANGED <<folders, rename_call, responses, active_video_stream_counts,
                   active_video_stream_counts_lock, streams>>

\* the request of d has left the with-block and its execute has not begun
AtExecute(d) ==
    /\ drain[d].pc = "execute"
    /\ callers[d].pc = "idle"
    /\ callers[d].calls = drain[d].call

\* an action() that calls execute inside the with-block of the condition
ExecuteEnter_inside(d) ==
    /\ drain[d].pc = "test"
    /\ callers[d].pc = "idle"
    /\ callers[d].calls = drain[d].call
    /\ Moves(d, [callers[d] EXCEPT !.pc = "acquire", !.op = "execute",
                                   !.action = drain[d].action, !.waited = 0])
    /\ lockFile' = [lockFile EXCEPT ![Folder] = lock_file_entered(@)]
    /\ UNCHANGED <<fs, history, nextId, held>>

\* action(), lines 504-505: history_service.execute, up to _acquire()
ExecuteEnter(d) ==
    /\ AtExecute(d)
    /\ ~read_refused(os_name, held[Folder], d)
    /\ Moves(d, [callers[d] EXCEPT !.pc = "acquire", !.op = "execute",
                                   !.action = drain[d].action, !.waited = 0])
    /\ lockFile' = [lockFile EXCEPT ![Folder] = lock_file_entered(@)]
    /\ UNCHANGED <<fs, history, nextId, held>>

\* the body of execute, on the files as the stream threads leave them
ExecuteAct(d) ==
    /\ callers[d].pc = "act"
    /\ Acted(d, execute(callers[d].file, fs, callers[d].action,
                        rename_env(os_name, callers[d].action.paths[1]), nextId))

\* action(), lines 506-516: the response is sent
Respond(d) ==
    /\ drain[d].pc = "execute"
    /\ callers[d].pc = "idle"
    /\ callers[d].calls = drain[d].call + 1
    /\ Drains(d, NoDrain)
    /\ UNCHANGED active_video_stream_counts_lock

\* the same, where read(1) raises
ExecuteRefused(d) ==
    /\ AtExecute(d)
    /\ read_refused(os_name, held[Folder], d)
    /\ Moves(d, [Idle(callers[d].calls + 1) EXCEPT
                    !.op = "execute",
                    !.action = drain[d].action,
                    !.out = Outcome(FALSE, "PermissionError", NoFile, <<>>, FALSE,
                                    NoRecord, NoPath)])
    /\ UNCHANGED <<fs, history, lockFile, nextId, held>>

\* the steps of a GET /api/video
StreamSteps(s) ==
    \/ GetVideo(s)
    \/ StreamOpen(s)
    \/ StreamAbandon(s)
    \/ StreamEnter(s)
    \/ StreamChunk(s)
    \/ StreamExit(s)
    \/ StreamSent(s)

\* the steps of a POST /api/action that finds the folder lock free
DeleteSteps(d) ==
    \/ ActionRequest(d)
    \/ DrainBegin(d)
    \/ DrainTest(d)
    \/ DrainWake(d)
    \/ DrainReacquire(d)
    \/ ExecuteEnter(d)
    \/ Acquire(d)
    \/ Load(d)
    \/ ExecuteAct(d)
    \/ Save(d)
    \/ Release(d)
    \/ Respond(d)

\* two videos streamed while one is deleted
NextStream ==
    \/ \E s \in StreamThreads : StreamSteps(s)
    \/ DeleteSteps("t1")
    \/ Tick

SpecStream == InitLock /\ [][NextStream]_vars

\* the same, where the thread of the delete request runs whenever it can and
\* time passes; a stream thread may stay where it is for ever, as its client
\* may
SpecStreamFair == SpecStream /\ WF_vars(DeleteSteps("t1")) /\ WF_vars(Tick)

\* two deletes while one video is streamed
NextWaiters ==
    \/ StreamSteps("s1")
    \/ \E d \in DeleteThreads :
          \/ DeleteSteps(d)
          \/ ExecuteRefused(d)
          \/ Poll(d)
          \/ TimedOut(d)
    \/ Tick

SpecWaiters == InitLock /\ [][NextWaiters]_vars

-----------------------------------------------------------------------------
(* app.py: the status that the routes of the actions send for an exception *)

\* the routes that call execute, undo and redo
Routes == {"action", "undo_action", "redo_action"}

\* what the service and the actions raise: ValueError (validation, nothing to
\* undo or redo), FileNotFoundError, FileExistsError, TimeoutError (FolderLock),
\* RuntimeError (the external tool), PermissionError (safe_rename)
Exceptions ==
    {"ValueError", "FileNotFoundError", "FileExistsError", "TimeoutError", "RuntimeError",
     "PermissionError"}

\* routes that tell a bad request from every other failure, and no more
status_of_any(route, err) == IF err = "ValueError" THEN 400 ELSE 500

\* the except clauses of action(), undo_action() and redo_action(), in their
\* order; undo_action and redo_action have no clause for RuntimeError, which
\* falls to their last one
status_of(route, err) ==
    IF err = "ValueError" THEN 400
    ELSE IF err = "FileNotFoundError" THEN 404
    ELSE IF err \in {"FileExistsError", "TimeoutError"} THEN 409
    ELSE IF route = "action" /\ err = "RuntimeError" THEN 500
    ELSE 500

\* the service raises err in a request to route: the route answers, and the
\* last two answers are kept
Responds(route, err) ==
    /\ responses' = SubSeq(<<[route |-> route, err |-> err, status |-> status_of(route, err)]>>
                             \o responses, 1, IF responses = <<>> THEN 1 ELSE 2)
    /\ UNCHANGED <<folders, rename_call, registry>>

NextRoutes == \E route \in Routes, err \in Exceptions : Responds(route, err)

SpecRoutes == Init /\ [][NextRoutes]_vars

-----------------------------------------------------------------------------
(* Properties of the history service *)

\* the history state that the next call on the folder loads
State == load_state(history[Folder])

\* the history state that the last call loaded
State0 == load_state(last.file0)

\* C1: after any sequence of execute, undo and redo calls, returning or raising,
\* the persisted cursor is in -1 .. len(actions) - 1
C1_CursorInRange ==
    \A d \in Folders :
        /\ load_state(history[d]).cursor >= -1
        /\ load_state(history[d]).cursor <= Len(load_state(history[d]).actions) - 1

\* two records, both undone, and a redo of the first that raised
C1_Witness ==
    /\ last.op = "redo" /\ ~last.ok /\ last.ran
    /\ Len(State.actions) = 2
    /\ State.cursor = -1

\* the last call was an undo that returned, of the record whose execute or
\* redo was the call before it
RoundTrip == last.op = "undo" /\ last.ok /\ last.roundTrip

\* the files of the folder, and of its archive directory, with their contents
FolderContents(f) == [p \in FolderFiles(f) |-> f[p]]

ArchiveContents(f) == [p \in ArchiveFiles(f) |-> f[p]]

\* where the undo of a Trim or Merge puts the output it takes out of the folder
UndoArchivePath(f, record) ==
    ensure_unique_path(f, Path(get_archive_dir(record.folder_path),
                               "undo_archive_" \o record.payload.out_path.base,
                               record.payload.out_path.ext))

\* C3 as the specification states it: after apply and undo every source is
\* back with its content, the output path is gone, and the archive directory
\* holds no file that it did not hold before
C3_RoundTripLeavesNoArchive ==
    RoundTrip =>
        /\ \A p \in Range(last.record.payload.paths) :
              exists(fs, p) /\ exists(last.pre, p) /\ fs[p] = last.pre[p]
        /\ ~exists(fs, last.record.payload.out_path)
        /\ ArchiveFiles(fs) \subseteq ArchiveFiles(last.pre)

\* C3: after apply and undo the folder holds the files it held before, each
\* with its content, and the output path is gone; the archive directory keeps
\* what it held and, after a Trim or a Merge, holds one file more: the output,
\* moved there under the name undo_archive_<output name>
C3_RoundTrip ==
    RoundTrip =>
        /\ \A p \in Range(last.record.payload.paths) :
              exists(fs, p) /\ exists(last.pre, p) /\ fs[p] = last.pre[p]
        /\ ~exists(fs, last.record.payload.out_path)
        /\ FolderContents(fs) = FolderContents(last.pre)
        /\ \A p \in ArchiveFiles(last.pre) : exists(fs, p) /\ fs[p] = last.pre[p]
        /\ IF last.record.action_type \in {"trim", "merge"}
           THEN /\ ArchiveFiles(fs) \ ArchiveFiles(last.pre)
                      = {UndoArchivePath(last.fs0, last.record)}
                /\ fs[UndoArchivePath(last.fs0, last.record)]
                      = last.fs0[last.record.payload.out_path]
           ELSE ArchiveFiles(fs) = ArchiveFiles(last.pre)

\* a Trim was applied and undone, and its output is in the archive directory
C3_Witness ==
    /\ RoundTrip
    /\ last.record.action_type = "trim"
    /\ exists(fs, UndoArchivePath(last.fs0, last.record))

\* the destinations that a record stores
Memoized(record) ==
    ({record.payload.out_path} \ {NoPath}) \cup Range(record.payload.archived_paths)

\* C4: a redo that returns has put the output and the archived sources at the
\* paths which the record stores, whatever now occupies other candidate names,
\* and has created no file anywhere else; the record itself is as it was
C4_RedoReusesStoredPaths ==
    (last.op = "redo" /\ last.ok) =>
        /\ State.actions = State0.actions
        /\ last.record = State0.actions[State0.cursor + 2]
        /\ \A p \in Memoized(last.record) : exists(fs, p)
        /\ DOMAIN fs \ DOMAIN last.fs0 \subseteq Memoized(last.record)
        /\ last.result \in Memoized(last.record)

\* a redo put the output at the stored "b (2)" although b.mp4, which made the
\* original apply number it, is no longer there
C4_Witness ==
    /\ last.op = "redo" /\ last.ok
    /\ last.record.payload.out_path = Path(Folder, "b (2)", ".mp4")
    /\ exists(fs, Path(Folder, "b (2)", ".mp4"))
    /\ ~exists(fs, FileB)

\* C5: an execute that returns on a history with cursor < len(actions) - 1
\* leaves the records up to the cursor followed by one new record, with the
\* cursor on it; a redo called next raises ValueError
C5_ExecuteTruncates ==
    (last.op = "execute" /\ last.ok /\ State0.cursor < Len(State0.actions) - 1) =>
        /\ State.actions = Append(SubSeq(State0.actions, 1, State0.cursor + 1), last.record)
        /\ \A i \in DOMAIN State0.actions : State0.actions[i].id # last.record.id
        /\ State.cursor = Len(State.actions) - 1
        /\ \A env \in Envs :
              /\ ~redo(history[Folder], fs, env).ok
              /\ redo(history[Folder], fs, env).err = "ValueError"

\* of two records the second was undone, and an execute replaced it
C5_Witness ==
    /\ last.op = "execute" /\ last.ok
    /\ Len(State0.actions) = 2 /\ State0.cursor = 0
    /\ Len(State.actions) = 2

\* C6: when apply() raises in execute, history.json is as the call found it,
\* redo tail included, and the call raises
C6_FailedExecuteKeepsHistory ==
    (last.op = "execute" /\ ~last.ok) =>
        /\ history[Folder] = last.file0
        /\ last.ran
        /\ last.err \in {"ValueError", "FileNotFoundError", "FileExistsError",
                         "RuntimeError", "PermissionError"}

\* an execute raised on a history that had a redo tail
C6_Witness ==
    /\ last.op = "execute" /\ ~last.ok
    /\ State0.cursor < Len(State0.actions) - 1
    /\ Len(State.actions) = Len(State0.actions)

\* C7: an undo that returns has undone the record at actions[cursor], has
\* moved the cursor down by one and has left the records as they were
C7_UndoStep ==
    (last.op = "undo" /\ last.ok) =>
        /\ State0.cursor >= 0
        /\ last.record = State0.actions[State0.cursor + 1]
        /\ \A p \in Range(last.record.payload.paths) : exists(fs, p)
        /\ \A p \in Memoized(last.record) : ~exists(fs, p)
        /\ State.cursor = State0.cursor - 1
        /\ State.actions = State0.actions
        /\ State.version = State0.version

\* the second of two records was undone
C7_Witness ==
    /\ last.op = "undo" /\ last.ok
    /\ State0.cursor = 1
    /\ State.cursor = 0

\* C8: a redo that returns has applied the record at actions[cursor + 1], has
\* moved the cursor up by one and has left the records as they were
C8_RedoStep ==
    (last.op = "redo" /\ last.ok) =>
        /\ State0.cursor + 1 < Len(State0.actions)
        /\ last.record = State0.actions[State0.cursor + 2]
        /\ \A p \in Memoized(last.record) : exists(fs, p)
        /\ State.cursor = State0.cursor + 1
        /\ State.actions = State0.actions
        /\ State.version = State0.version

\* the first of two undone records was applied again
C8_Witness ==
    /\ last.op = "redo" /\ last.ok
    /\ State0.cursor = -1 /\ Len(State0.actions) = 2
    /\ State.cursor = 0

\* the last call found nothing to undo, or nothing to redo
NothingToDo ==
    \/ last.op = "undo" /\ State0.cursor = -1
    \/ last.op = "redo" /\ ~(State0.cursor + 1 \in 0..(Len(State0.actions) - 1))

\* C9: an undo at cursor -1, and a redo whose cursor + 1 is no index, raise
\* ValueError, run no action and leave history.json and the files as they were
C9_NothingToDo ==
    NothingToDo =>
        /\ ~last.ok
        /\ last.err = "ValueError"
        /\ ~last.ran
        /\ history[Folder] = last.file0
        /\ fs = last.fs0

\* an undo was refused at cursor -1 although the history holds a record
C9_Witness ==
    /\ last.op = "undo" /\ ~last.ok
    /\ State0.cursor = -1
    /\ Len(State0.actions) > 0

\* C10: when the action's undo() or redo() raises, the call raises and
\* history.json is as the call found it
C10_FailedStepKeepsHistory ==
    (last.op \in {"undo", "redo"} /\ last.ran /\ ~last.ok) =>
        /\ history[Folder] = last.file0
        /\ last.err \in {"FileNotFoundError", "FileExistsError", "RuntimeError",
                         "PermissionError", "ValueError"}

\* the action's redo() raised
C10_Witness ==
    /\ last.op = "redo" /\ last.ran /\ ~last.ok
    /\ State.cursor = State0.cursor
    /\ State0.cursor + 1 < Len(State0.actions)

\* the call of c is between FolderLock.__enter__ and FolderLock.__exit__
InSection(c) == callers[c].pc \in {"load", "act", "save", "release"}

\* C2: at most one call holds the lock of the folder, whether the calls are
\* made by threads of one process or by different processes, and the
\* sections from _load_state to _save_state of two calls never overlap
C2_MutualExclusion ==
    /\ Cardinality(held[Folder]) <= 1
    /\ \A c \in Callers : InSection(c) => c \in held[Folder]
    /\ \A c1, c2 \in Callers : (InSection(c1) /\ InSection(c2)) => c1 = c2

\* a thread is between load and save while another thread of its process and
\* another process have both tried for the lock and wait
C2_Witness ==
    /\ callers["t1"].pc = "act"
    /\ callers["t2"].pc = "acquire" /\ callers["t2"].waited > 0
    /\ callers["p2"].pc = "acquire" /\ callers["p2"].waited > 0

\* the call of c was an execute that returned
Executed(c) == callers[c].pc = "idle" /\ callers[c].op = "execute" /\ callers[c].out.ok

\* c has made no call that got the lock
Outside(c) ==
    /\ callers[c].pc \in {"idle", "acquire"}
    /\ callers[c].out \in {NoOutcome,
                           Outcome(FALSE, "TimeoutError", NoFile, <<>>, FALSE, NoRecord, NoPath)}

\* c1 executed first and c2 after it: c2 loaded what c1 saved, and the
\* history.json of the folder is what c2 saved, both records in it
Serialized(c1, c2) ==
    /\ callers[c1].out.file.doc.actions = <<callers[c1].out.record>>
    /\ callers[c2].out.file.doc.actions = <<callers[c1].out.record, callers[c2].out.record>>
    /\ callers[c1].out.record.id # callers[c2].out.record.id
    /\ history[Folder] = callers[c2].out.file
    /\ State.cursor = 1

\* What holds of C11 on every machine: when two concurrent executes on a
\* folder both return (and nobody else worked on the folder), the later one
\* loaded the history that the earlier one saved, and history.json holds both
\* records in that order with the cursor on the later one
ConcurrentExecutesSerialized ==
    \A c1, c2 \in Callers :
        (c1 # c2 /\ Executed(c1) /\ Executed(c2) /\ \A c3 \in Callers \ {c1, c2} : Outside(c3))
            => (Serialized(c1, c2) \/ Serialized(c2, c1))

\* two threads of one process both executed, and the second had to wait
ConcurrentExecutesWaited ==
    /\ Executed("t1") /\ Executed("t2")
    /\ Serialized("t1", "t2")
    /\ callers["t2"].waited > 0
    /\ Outside("p2")

\* the call of c was an execute and is over; its action succeeded, or did
\* not run and would succeed now; the wait for the lock did not time out
ExecuteDue(c) ==
    /\ callers[c].pc = "idle" /\ callers[c].op = "execute"
    /\ callers[c].out.err # "TimeoutError"
    /\ IF callers[c].out.ran THEN callers[c].out.ok
       ELSE ActionApply(callers[c].action, fs, NoFault).ok

\* C11: when two callers execute actions that succeed on one folder at the
\* same time, the second waits for the first to release the lock, and
\* history.json then holds both records, one after the other, with the cursor
\* on the later one
C11_BothExecutesRecorded ==
    \A c1, c2 \in Callers :
        (c1 # c2 /\ ExecuteDue(c1) /\ ExecuteDue(c2) /\ \A c3 \in Callers \ {c1, c2} : Outside(c3))
            => (Serialized(c1, c2) \/ Serialized(c2, c1))

\* history.json is absent or holds a whole state
Complete(file) == file = NoFile \/ file = save_state(file.doc)

\* a step that changes history.json puts there the state that a call is
\* saving, whole
Promotes ==
    history'[Folder] # history[Folder] =>
        \E c \in Callers :
            /\ callers[c].pc = "promote"
            /\ history'[Folder] = callers[c].out.file

\* C12: wherever the process dies in _save_state, history.json holds a whole
\* state: it is whole at all times, and it changes only in the one step that
\* replaces the previous state by the new one
C12_HistoryAlwaysWhole == [](Complete(history[Folder])) /\ [][Promotes]_vars

\* a process died in _save_state with a half-written temp file, and
\* history.json still holds the record saved before
C12_Witness ==
    /\ callers["p2"].op = "crash"
    /\ tmpFile[Folder] = TornFile(callers["p2"].out.file.doc)
    /\ callers["p2"].out.file # history[Folder]
    /\ history[Folder] = callers["p2"].file
    /\ Len(State.actions) = 1

\* c holds the lock of the folder before and after the step
HoldsAcross(c) == c \in held[Folder] /\ c \in held'[Folder]

\* the step reads history.json: the _load_state of the call of c
ReadsHistory(c) == callers[c].pc = "load" /\ callers'[c].pc # "load"

\* the step is one of the call of c between _load_state and _save_state
WorksOn(c) == callers[c].pc \in {"act", "save"} /\ callers'[c] # callers[c]

\* every step that reads history.json, and every step that changes
\* history.json or the files of the folder, is a step of a call that got the
\* lock of the folder before it and releases it after it
InsideLock ==
    /\ \A c \in Callers : ReadsHistory(c) => HoldsAcross(c)
    /\ (history' # history \/ fs' # fs \/ tmpFile' # tmpFile) =>
           \E c \in Callers : WorksOn(c) /\ HoldsAcross(c)

\* C13: every read and write of history.json, and every change that apply,
\* undo or redo makes to the files, happens after the call's FolderLock was
\* acquired and before it is released
C13_InsideLock == [][InsideLock]_vars

\* a call renamed a file and saved its record, still holding the lock, while
\* another call waits for it
C13_Witness ==
    /\ callers["t1"].pc = "release" /\ callers["t1"].out.ok
    /\ callers["t1"].op = "execute" /\ callers["t1"].action.action_type = "rename"
    /\ "t1" \in held[Folder]
    /\ history[Folder] = callers["t1"].out.file
    /\ ~exists(fs, FileA)
    /\ callers["p2"].pc = "acquire" /\ callers["p2"].waited > 0

\* the step ends the call of c with TimeoutError
TimesOut(c) ==
    /\ callers'[c].calls = callers[c].calls + 1
    /\ callers'[c].out.err = "TimeoutError"

\* the step leaves the history state and the files as they are
Untouched == UNCHANGED <<fs, history, tmpFile, nextId>>

\* an attempt of c at the lock: it returns at once, with the lock when nobody
\* else holds it; otherwise c sleeps and tries again until the timeout has
\* passed, and then the call ends with TimeoutError
Attempt(c) ==
    IF held[Folder] \ {c} = {}
    THEN c \in held'[Folder] /\ callers'[c].pc = "load"
    ELSE /\ held' = held
         /\ Untouched
         /\ IF callers[c].waited < MaxPolls
            THEN callers'[c] = [callers[c] EXCEPT !.waited = @ + 1]
            ELSE TimesOut(c) /\ callers'[c].pc = "idle"

\* a call ends with TimeoutError only out of a wait of the whole timeout
\* during which it never had the lock, loaded nothing and ran nothing
TimeoutStep(c) ==
    TimesOut(c) =>
        /\ callers[c].pc = "acquire"
        /\ callers[c].waited = MaxPolls
        /\ held[Folder] \ {c} # {}
        /\ c \notin held[Folder]
        /\ ~callers'[c].out.ran
        /\ callers'[c].out.file = NoFile
        /\ callers'[c].out.record = NoRecord
        /\ Untouched

\* a call that waits for the lock has not been waiting longer than the
\* timeout, does not hold the lock and has loaded nothing
Waiting(c) ==
    callers[c].pc = "acquire" =>
        /\ callers[c].waited <= MaxPolls
        /\ c \notin held[Folder]
        /\ callers[c].file = NoFile

TempOutput(a) ==
    IF a.action_type = "trim" THEN Trim_build_temp_output_path(a)
    ELSE Merge_build_temp_output_path(a)

\* the last call was an execute of a Trim or a Merge whose apply() got as far
\* as running ffmpeg, and ffmpeg exited non-zero
ToolFailed ==
    /\ last.op = "execute" /\ ~last.ok /\ ~applied.ok
    /\ ~applied.env.tool
    /\ applied.err \notin {"ValueError", "FileNotFoundError", "FileExistsError"}

PromotionFailed ==
    /\ last.op = "execute" /\ ~last.ok /\ ~applied.ok
    /\ applied.env.tool /\ applied.env.failAt = 1
    /\ applied.err = "PermissionError"

\* the last call was an execute of a Trim or a Merge in which, after the
\* promotion, the rename that archives a source kept raising
ArchivingFailed ==
    /\ last.op = "execute" /\ ~last.ok /\ ~applied.ok
    /\ applied.env.tool /\ applied.env.failAt >= 2
    /\ applied.err = "PermissionError"

\* nothing has gone to the archive directory, and every source is in place
NothingArchived ==
    /\ ArchiveContents(fs) = ArchiveContents(last.fs0)
    /\ \A p \in Range(applied.action.paths) : exists(fs, p) /\ fs[p] = last.fs0[p]

\* the i-th source is where apply() found it, and not in the archive
InPlace(i) ==
    /\ exists(fs, applied.action.paths[i])
    /\ fs[applied.action.paths[i]] = last.fs0[applied.action.paths[i]]
    /\ ~exists(fs, applied.action.archived_paths[i])

\* the i-th source is in the archive under its archive name, and not in place
InArchive(i) ==
    /\ ~exists(fs, applied.action.paths[i])
    /\ exists(fs, applied.action.archived_paths[i])
    /\ fs[applied.action.archived_paths[i]] = last.fs0[applied.action.paths[i]]

\* C16 as the specification states it: no source is archived before the
\* output is promoted, and when archiving fails after the promotion the
\* files are as apply() found them
C16_FailureRestoresLayout ==
    /\ PromotionFailed => NothingArchived
    /\ ArchivingFailed =>
           /\ \A i \in DOMAIN applied.action.paths : InPlace(i)
           /\ ~exists(fs, applied.action.out_path)
           /\ fs = last.fs0

\* C16: no source is archived before the output is promoted; when archiving
\* fails after the promotion, the sources already archived are taken back and
\* the promoted output is removed, each as far as that step succeeds: the
\* output stays when its os.remove raises, the sources archived before the
\* failing one stay in the archive when taking them back raises, and when
\* no cleanup step raises the files are as apply() found them
C16_RollbackBestEffort ==
    /\ PromotionFailed => NothingArchived
    /\ ArchivingFailed =>
           /\ \A i \in DOMAIN applied.action.paths :
                 IF i < applied.env.failAt - 1 /\ "restore" \in applied.env.keep
                 THEN InArchive(i) ELSE InPlace(i)
           /\ exists(fs, applied.action.out_path) <=> "out" \in applied.env.keep
           /\ ~exists(fs, TempOutput(applied.action))
           /\ applied.env.keep \subseteq {"temp"} => fs = last.fs0
           /\ history[Folder] = last.file0

\* in a merge of three clips the third could not be archived, and the first
\* two were taken back out of the archive and the merged file removed
C16_Witness ==
    /\ ArchivingFailed
    /\ applied.action.action_type = "merge" /\ Len(applied.action.paths) = 3
    /\ applied.env.failAt = 4 /\ applied.env.keep = {}
    /\ fs = last.fs0

\* the archive name that a Delete derives for original_path, and the numbered
\* names that stand in for it when it is taken
DeleteArchiveNames(original_path) ==
    {Path(original_path.dir \o "/TO_BE_DELETED",
          original_path.base \o "_archive_" \o original_path.base \o suffix,
          original_path.ext) : suffix \in {"", " (2)", " (3)"}}

\* the last call was an execute of a Delete that returned
Deleted == last.op = "execute" /\ last.ok /\ last.record.action_type = "delete"

\* C17: after a Delete has been executed the original path is free and the
\* archive directory holds exactly one file more, the deleted one, under the
\* derived archive name that the record stores; an undo puts the file back
\* at the original path and leaves nothing at that archive path
C17_DeleteArchivesAndRestores ==
    /\ Deleted =>
           /\ exists(last.fs0, last.record.payload.paths[1])
           /\ ~exists(fs, last.record.payload.paths[1])
           /\ Len(last.record.payload.archived_paths) = 1
           /\ last.record.payload.archived_paths[1]
                  \in DeleteArchiveNames(last.record.payload.paths[1])
           /\ ArchiveFiles(fs) \ ArchiveFiles(last.fs0) = {last.record.payload.archived_paths[1]}
           /\ ArchiveFiles(last.fs0) \subseteq ArchiveFiles(fs)
           /\ fs[last.record.payload.archived_paths[1]] = last.fs0[last.record.payload.paths[1]]
           /\ FolderContents(fs)
                  = FolderContents(Remove(last.fs0, last.record.payload.paths[1]))
           /\ State.actions[State.cursor + 1] = last.record
    /\ (RoundTrip /\ last.record.action_type = "delete") =>
           /\ exists(fs, last.record.payload.paths[1])
           /\ fs[last.record.payload.paths[1]] = last.pre[last.record.payload.paths[1]]
           /\ ~exists(fs, last.record.payload.archived_paths[1])
           /\ fs = last.pre

\* a.mp4 was deleted into TO_BE_DELETED/a_archive_a.mp4, and the undo took it
\* back out
C17_Witness ==
    /\ RoundTrip /\ last.record.action_type = "delete"
    /\ last.record.payload.paths = <<FileA>>
    /\ last.record.payload.archived_paths
           = <<Path(Folder \o "/TO_BE_DELETED", "a_archive_a", ".mp4")>>
    /\ exists(last.fs0, Path(Folder \o "/TO_BE_DELETED", "a_archive_a", ".mp4"))
    /\ exists(fs, FileA) /\ fs[FileA] = "A"

\* the record of the last call is a Merge of three clips with archive_originals
MergeOfThree ==
    /\ last.record.action_type = "merge"
    /\ Len(last.record.payload.paths) = 3
    /\ last.record.payload.archive_originals

\* C18: after a Merge of three clips with archive_originals has been
\* executed, none of the three is at its path, each is in the archive
\* directory, and the folder holds exactly one new file, the merged one, at
\* the resolved destination; an undo puts the three back at their paths and
\* moves the merged file into the archive directory
C18_MergeArchivesAndRestores ==
    /\ (last.op = "execute" /\ last.ok /\ MergeOfThree) =>
           /\ Len(last.record.payload.archived_paths) = 3
           /\ \A i \in 1..3 :
                 /\ exists(last.fs0, last.record.payload.paths[i])
                 /\ ~exists(fs, last.record.payload.paths[i])
                 /\ last.record.payload.archived_paths[i] \in ArchiveFiles(fs)
                 /\ fs[last.record.payload.archived_paths[i]]
                        = last.fs0[last.record.payload.paths[i]]
           /\ ArchiveFiles(fs) \ ArchiveFiles(last.fs0) = Range(last.record.payload.archived_paths)
           /\ Cardinality(Range(last.record.payload.archived_paths)) = 3
           /\ FolderFiles(fs) \ FolderFiles(last.fs0) = {last.record.payload.out_path}
           /\ last.result = last.record.payload.out_path
           /\ fs[last.record.payload.out_path]
                  = MergeOutput(last.fs0, last.record.payload.paths)
    /\ (RoundTrip /\ MergeOfThree) =>
           /\ \A i \in 1..3 :
                 /\ exists(fs, last.record.payload.paths[i])
                 /\ fs[last.record.payload.paths[i]] = last.pre[last.record.payload.paths[i]]
                 /\ ~exists(fs, last.record.payload.archived_paths[i])
           /\ ~exists(fs, last.record.payload.out_path)
           /\ FolderContents(fs) = FolderContents(last.pre)
           /\ \E p \in ArchiveFiles(fs) :
                 /\ ArchiveFiles(fs) \ ArchiveFiles(last.pre) = {p}
                 /\ fs[p] = last.fs0[last.record.payload.out_path]

\* a.mp4, b.mp4 and c.mp4 were merged into "b (2).mp4" and archived, and the
\* undo put them back and archived the merged file
C18_Witness ==
    /\ RoundTrip /\ MergeOfThree
    /\ last.record.payload.paths = <<FileA, FileB, FileC>>
    /\ last.record.payload.out_path = Path(Folder, "b (2)", ".mp4")
    /\ fs[Path(Folder \o "/TO_BE_DELETED", "undo_archive_b (2)", ".mp4")] = "merge(A+B+C)"
    /\ FolderContents(fs) = InitialFiles

\* "name (n).ext" next to path
Numbered(path, n) == Path(path.dir, path.base \o " (" \o ToString(n) \o ")", path.ext)

\* the last call was an execute of a Rename that returned
Renamed1 == last.op = "execute" /\ last.ok /\ last.record.action_type = "rename"

\* C19: ensure_unique_path gives the path itself when no file is there, and
\* otherwise "name (N).ext" for the smallest N >= 2 at which no file is; the
\* path it gives never exists when it is resolved.  A Rename of a.mp4 to b
\* so goes to b.mp4, to "b (2).mp4" when b.mp4 is taken, to "b (3).mp4" when
\* that is taken too
C19_SmallestFreeName ==
    /\ \A path \in NumberedNames \cup {FileA, Missing} :
          /\ ~exists(fs, ensure_unique_path(fs, path))
          /\ ~exists(fs, path) => ensure_unique_path(fs, path) = path
          /\ exists(fs, path) =>
                 \E n \in 2..(MaxIndex * MaxIndex) :
                     /\ ensure_unique_path(fs, path) = Numbered(path, n)
                     /\ \A m \in 2..(n - 1) : exists(fs, Numbered(path, m))
    /\ (Renamed1 /\ last.record.payload.paths = <<FileA>> /\ last.record.payload.new_name = "b") =>
          /\ ~exists(last.fs0, last.record.payload.out_path)
          /\ ~exists(last.fs0, FileB) => last.record.payload.out_path = FileB
          /\ (exists(last.fs0, FileB) /\ ~exists(last.fs0, Path(Folder, "b (2)", ".mp4")))
                 => last.record.payload.out_path = Path(Folder, "b (2)", ".mp4")
          /\ (exists(last.fs0, FileB) /\ exists(last.fs0, Path(Folder, "b (2)", ".mp4"))
                                      /\ ~exists(last.fs0, Path(Folder, "b (3)", ".mp4")))
                 => last.record.payload.out_path = Path(Folder, "b (3)", ".mp4")
          /\ exists(fs, last.record.payload.out_path)
          /\ last.result = last.record.payload.out_path

\* a.mp4 was renamed to b in a folder that held b.mp4, "b (2).mp4" and
\* "b (4).mp4", and is now "b (3).mp4"
C19_Witness ==
    /\ Renamed1
    /\ last.record.payload.paths = <<FileA>>
    /\ DOMAIN last.fs0 = {FileA, FileB, Path(Folder, "b (2)", ".mp4"), Path(Folder, "b (4)", ".mp4")}
    /\ last.record.payload.out_path = Path(Folder, "b (3)", ".mp4")
    /\ fs[Path(Folder, "b (3)", ".mp4")] = "A"

\* apply() of a Rename of old_path to new_name, with new_path memoized or
\* NoPath, on the files f refuses with the exception err and changes nothing
RenameRefuses(old_path, new_name, new_path, f, env, err) ==
    /\ ~Rename_apply(RenameVideoAction(old_path, new_name, new_path), f, env).ok
    /\ Rename_apply(RenameVideoAction(old_path, new_name, new_path), f, env).err = err
    /\ Rename_apply(RenameVideoAction(old_path, new_name, new_path), f, env).fs = f

\* the record that the last call, a redo, worked on
RedoRecord == State0.actions[State0.cursor + 2]

\* the last call was a redo that ran the apply() of a Rename
RedoneRename == last.op = "redo" /\ last.ran /\ RedoRecord.action_type = "rename"

\* C20: apply() of a Rename raises FileNotFoundError when the source is
\* missing, and FileExistsError when the source is there and a file is at the
\* destination, resolved or stored in the record that a redo replays; in both
\* cases the files are left as they are, none renamed and none overwritten
C20_RenameRefuses ==
    /\ \A old_path \in {FileA, FileB, Missing}, new_name \in NewNames,
          new_path \in (DOMAIN fs \cup {NoPath, Missing}), env \in Faults(1) :
          /\ ~exists(fs, old_path)
                 => RenameRefuses(old_path, new_name, new_path, fs, env, "FileNotFoundError")
          /\ (exists(fs, old_path) /\ new_path # old_path /\ exists(fs, new_path))
                 => RenameRefuses(old_path, new_name, new_path, fs, env, "FileExistsError")
    /\ RedoneRename =>
          /\ ~exists(last.fs0, RedoRecord.payload.paths[1])
                 => (~last.ok /\ last.err = "FileNotFoundError" /\ fs = last.fs0)
          /\ (exists(last.fs0, RedoRecord.payload.paths[1])
                 /\ exists(last.fs0, RedoRecord.payload.out_path))
                 => (~last.ok /\ last.err = "FileExistsError" /\ fs = last.fs0)
          /\ ~last.ok => history[Folder] = last.file0
    /\ (last.op = "execute" /\ last.err \in {"FileNotFoundError", "FileExistsError"})
          => fs = last.fs0

\* a rename of a.mp4 was undone, somebody put a file at "b (2).mp4", and the
\* redo raised FileExistsError and left both files as they were
C20_Witness ==
    /\ RedoneRename
    /\ ~last.ok /\ last.err = "FileExistsError"
    /\ RedoRecord.payload.out_path = Path(Folder, "b (2)", ".mp4")
    /\ fs[Path(Folder, "b (2)", ".mp4")] = "X"
    /\ fs[FileA] = "A"

-----------------------------------------------------------------------------
(* C21: what the undo of a Trim refuses, and what it moves *)

\* the record that the last call, an undo, worked on
UndoRecord == State0.actions[State0.cursor + 1]

\* the last call was an undo that ran the undo() of a Trim
UndoneTrim == last.op = "undo" /\ last.ran /\ UndoRecord.action_type = "trim"

\* the undo of the Trim found its trimmed output in the folder
OutputThere ==
    /\ UndoRecord.payload.out_path # NoPath
    /\ exists(last.fs0, UndoRecord.payload.out_path)

\* C21: undo() of a Trim raises FileNotFoundError when the archived original
\* is missing and FileExistsError when a file is at the original path, and in
\* both cases no file has been moved; an undo that returns has put the
\* archived original back at its source path and the trimmed output, when it
\* was there, into the archive directory as undo_archive_<name>, and has
\* touched no other file
C21_TrimUndoRefusesOrRestores ==
    UndoneTrim =>
        /\ ~exists(last.fs0, UndoRecord.payload.archived_paths[1])
               => (~last.ok /\ last.err = "FileNotFoundError" /\ fs = last.fs0)
        /\ (exists(last.fs0, UndoRecord.payload.archived_paths[1])
               /\ exists(last.fs0, UndoRecord.payload.paths[1]))
               => (~last.ok /\ last.err = "FileExistsError" /\ fs = last.fs0)
        /\ last.err \in {"FileNotFoundError", "FileExistsError"} => fs = last.fs0
        /\ last.ok =>
               /\ exists(last.fs0, UndoRecord.payload.archived_paths[1])
               /\ ~exists(last.fs0, UndoRecord.payload.paths[1])
               /\ ~exists(fs, UndoRecord.payload.archived_paths[1])
               /\ exists(fs, UndoRecord.payload.paths[1])
               /\ fs[UndoRecord.payload.paths[1]]
                      = last.fs0[UndoRecord.payload.archived_paths[1]]
               /\ OutputThere =>
                      /\ ~exists(fs, UndoRecord.payload.out_path)
                      /\ exists(fs, UndoArchivePath(last.fs0, UndoRecord))
                      /\ fs[UndoArchivePath(last.fs0, UndoRecord)]
                             = last.fs0[UndoRecord.payload.out_path]
               /\ DOMAIN fs
                      = ((DOMAIN last.fs0 \ {UndoRecord.payload.archived_paths[1],
                                             UndoRecord.payload.out_path})
                           \cup {UndoRecord.payload.paths[1]})
                        \cup (IF OutputThere
                              THEN {UndoArchivePath(last.fs0, UndoRecord)} ELSE {})

\* somebody put a file at the original path of a Trim; its undo raised
\* FileExistsError and left the trimmed output in the folder
C21_Witness ==
    /\ UndoneTrim
    /\ ~last.ok /\ last.err = "FileExistsError"
    /\ fs[UndoRecord.payload.paths[1]] = "X"
    /\ exists(fs, UndoRecord.payload.out_path)
    /\ exists(fs, UndoRecord.payload.archived_paths[1])

-----------------------------------------------------------------------------
(* C22: the requests that a Merge refuses *)

\* the last call was an execute, of this kind of action
ExecutedFault(action_type) == last.op = "execute" /\ applied.action.action_type = action_type

\* the clips and the name of a Merge request are not what a Merge takes
InvalidMerge(a) ==
    \/ Len(a.paths) \notin {2, 3}
    \/ \E i, j \in DOMAIN a.paths : i # j /\ a.paths[i] = a.paths[j]
    \/ a.new_name = ""
    \/ \E i, j \in DOMAIN a.paths : a.paths[i].dir # a.paths[j].dir

\* C22: the execute of a Merge that names fewer than 2 or more than 3 clips, one
\* clip twice, no new name, or clips of more than one folder raises ValueError,
\* whether the external tool would have failed and whether a clip is
\* missing; it leaves every file and the persisted history as they were; and
\* no other Merge raises ValueError
C22_MergeValidation ==
    ExecutedFault("merge") =>
        /\ InvalidMerge(applied.action) =>
               /\ ~last.ok /\ last.err = "ValueError"
               /\ fs = last.fs0
               /\ history[Folder] = last.file0
        /\ last.err = "ValueError" => InvalidMerge(applied.action)

\* a merge of a clip with itself was refused although the external tool would
\* have failed on it
C22_Witness ==
    /\ ExecutedFault("merge")
    /\ applied.action.paths = <<FileB, FileB>>
    /\ ~applied.env.tool
    /\ last.err = "ValueError"
    /\ fs = last.fs0

-----------------------------------------------------------------------------
(* C23: a Trim needs a start, and no end *)

\* C23: the execute of a Trim whose start timestamp is empty raises ValueError,
\* whether the external tool would have failed and whether the source is
\* there, and leaves every file and the persisted history as they were; a Trim
\* raises ValueError for an empty start or an empty name only, never for an
\* empty end, and a Trim without an end that returns has written its output
C23_TrimValidation ==
    ExecutedFault("trim") =>
        /\ applied.action.start = "" =>
               /\ ~last.ok /\ last.err = "ValueError"
               /\ fs = last.fs0
               /\ history[Folder] = last.file0
        /\ last.err = "ValueError" =>
               (applied.action.start = "" \/ applied.action.new_name = "")
        /\ (last.ok /\ applied.action.end = "") =>
               /\ exists(fs, applied.action.out_path)
               /\ fs[applied.action.out_path]
                      = TrimOutput(last.fs0[applied.action.paths[1]], applied.action.start, "")

\* a trim with neither start nor end was refused although the external tool
\* would have failed on it
C23_Witness ==
    /\ ExecutedFault("trim")
    /\ applied.action.start = "" /\ applied.action.end = ""
    /\ applied.action.new_name = "b"
    /\ ~applied.env.tool
    /\ last.err = "ValueError"
    /\ fs = last.fs0

-----------------------------------------------------------------------------
(* C24: the attempts of safe_rename *)

\* the attempts made so far, the running one included
Tried == rename_call.i + 1

\* every attempt before the last one found the file in use, and each was
\* followed by one sleep of the fixed delay
RetriedSoFar ==
    /\ \A j \in 1 .. Tried - 1 : rename_call.outcomes[j] = "PermissionError"
    /\ rename_call.slept = (Tried - 1) * delay

\* C24 as the specification states it: a call whose attempts all failed
\* raises the timeout error
C24_ExhaustedRaisesTimeout ==
    (rename_call.pc = "raised" /\ Tried = retries) => rename_call.err = "TimeoutError"

\* C24: safe_rename makes at most 5 attempts and sleeps the fixed delay between
\* two of them; it returns at the first attempt that succeeds; it goes on only
\* after a PermissionError, so that any other exception of os.rename is raised
\* at once; and when all 5 attempts raised PermissionError it raises the
\* PermissionError of the last one, never a timeout error
C24_SafeRenameRetries ==
    /\ Tried <= retries
    /\ rename_call.pc = "returned" => (Attempted = "ok" /\ RetriedSoFar)
    /\ rename_call.pc = "raised" =>
           /\ RetriedSoFar
           /\ rename_call.err = Attempted
           /\ rename_call.err # "TimeoutError"
           /\ rename_call.err = "PermissionError" => Tried = retries
           /\ rename_call.err # "PermissionError" => rename_call.err = "FileNotFoundError"
    /\ rename_call.pc = "sleep" => (Attempted = "PermissionError" /\ Tried < retries)

\* all five attempts found the file in use: the call slept four times and
\* raised PermissionError
C24_Witness ==
    /\ rename_call.pc = "raised"
    /\ Tried = retries
    /\ rename_call.slept = 4 * delay
    /\ rename_call.err = "PermissionError"

-----------------------------------------------------------------------------
(* C25: what the registry counts *)

\* the range reads of path that have entered the registry and not left it
Entered(path) == {s \in StreamThreads : streams[s].path = path /\ streams[s].pc = "read"}

\* C25: the registry holds a path exactly when some range read of it has
\* entered and not left, and then its count is the number of these reads; so
\* no count is zero or negative
C25_CountIsReaders ==
    /\ DOMAIN active_video_stream_counts = {p \in VideoPaths : Entered(p) # {}}
    /\ \A p \in DOMAIN active_video_stream_counts :
          /\ active_video_stream_counts[p] = Cardinality(Entered(p))
          /\ active_video_stream_counts[p] >= 1

\* one reader of a.mp4 has left and the other still reads: the count is 1
C25_Witness ==
    /\ active_video_stream_counts = (FileA :> 1)
    /\ streams["s1"].exited = 1
    /\ streams["s2"].pc = "read" /\ streams["s2"].path = FileA

-----------------------------------------------------------------------------
(* C26: the wait of a delete for the readers of its path *)

\* the count of the path that the delete of d names
DrainCount(d) == counts_get(active_video_stream_counts, drain[d].action.paths[1], 0)

\* d is blocked in wait(): not notified, and its time is not up
Blocked(d) ==
    /\ drain[d].pc = "wait"
    /\ ~drain[d].notified
    /\ drain[d].elapsed < wait_timeout_seconds

\* a reader leaves the registry in this step
Exits(s) == streams'[s].exited = streams[s].exited + 1

\* the loop of d ends in this step
LeavesWait(d) == drain[d].pc = "test" /\ drain'[d].pc = "execute"

\* while d waits, or tests the count
WaitState ==
    \A d \in DeleteThreads :
        /\ drain[d].pc \in {"wait", "wake"} => active_video_stream_counts_lock # d
        /\ drain[d].pc = "test" =>
              (active_video_stream_counts_lock = d /\ drain[d].count = DrainCount(d))
        /\ Blocked(d) => DrainCount(d) > 0

WaitStep ==
    /\ \A s \in StreamThreads :
          Exits(s) =>
              /\ active_video_stream_counts_lock = ""
              /\ \A d \in DeleteThreads : drain[d].pc = "wait" => drain'[d].notified
    /\ \A d \in DeleteThreads :
          /\ LeavesWait(d) =>
                (DrainCount(d) = 0 \/ drain[d].elapsed >= wait_timeout_seconds)
          /\ (drain[d].pc = "test" /\ drain'[d].pc = "wait") =>
                (DrainCount(d) > 0 /\ drain[d].elapsed < wait_timeout_seconds)
          /\ (drain[d].pc = "wait" /\ drain'[d].pc = "wake") =>
                (drain[d].notified \/ drain[d].elapsed >= wait_timeout_seconds)

\* C26: a delete that waits for the readers of its path does not hold the
\* mutex of the registry while it waits; every reader that leaves takes the
\* mutex and wakes every waiting thread, so that no thread stays blocked in
\* wait() while the count of its path is zero; a woken thread reads the count
\* again under the mutex, and the loop ends at the first such test that finds
\* the count zero or the timeout elapsed, and at no other
C26_DrainWait == []WaitState /\ [][WaitStep]_vars

\* two deletes of a.mp4 waited for its reader; the reader left and woke both
\* before their time was up; one of them has found the count zero and gone on
C26_Witness ==
    /\ drain["t1"].pc = "execute" /\ drain["t1"].count = 0
    /\ drain["t2"].pc = "wake"
    /\ \A d \in DeleteThreads :
          /\ drain[d].notified
          /\ drain[d].elapsed < wait_timeout_seconds
          /\ drain[d].action.paths[1] = FileA
          /\ callers[d].pc = "idle" /\ callers[d].calls = 0
    /\ streams["s1"].exited = 1
    /\ active_video_stream_counts = <<>>

-----------------------------------------------------------------------------
(* C27: a delete is not held up for ever *)

\* the request of d is between the start of the with-block and its end
Draining(d) == drain[d].pc \in {"lock", "test", "wait", "wake"}

\* the request of d has called history_service.execute
Executing(d) == drain[d].pc = "execute" /\ callers[d].pc # "idle"

\* the request of d moves in this step
DrainMoves(d) == drain'[d] # drain[d]

\* the wait ends in no other way than by going on to execute, and a test after
\* the deadline ends it
DrainProceeds ==
    \A d \in DeleteThreads :
        /\ (Draining(d) /\ DrainMoves(d)) => (Draining(d)' \/ drain'[d].pc = "execute")
        /\ (drain[d].pc = "test" /\ drain[d].elapsed >= wait_timeout_seconds /\ DrainMoves(d))
              => drain'[d].pc = "execute"

-----------------------------------------------------------------------------
(* C28: the mutex of the registry and the folder lock *)

\* the call of d has asked for the folder lock, waits for it or holds it
AtFolderLock(d) == callers[d].pc # "idle" \/ d \in held[Folder]

\* C28: a delete request asks for the FolderLock only after its wait has ended
\* and it has released the mutex of the registry; no thread holds the mutex
\* while it waits for or holds a FolderLock, none waits for the readers while
\* it holds a FolderLock, and the stream threads take no FolderLock at all
C28_WaitBeforeFolderLock ==
    /\ \A d \in DeleteThreads :
          /\ AtFolderLock(d) =>
                (drain[d].pc = "execute" /\ active_video_stream_counts_lock # d)
          /\ active_video_stream_counts_lock = d => ~AtFolderLock(d)
          /\ Draining(d) => ~AtFolderLock(d)
    /\ held[Folder] \subseteq DeleteThreads
    /\ active_video_stream_counts_lock \in DeleteThreads \cup {""}

\* t1 waited for the reader of a.mp4 and now holds the FolderLock for its
\* delete, while t2 holds the mutex of the registry and tests its count
C28_Witness ==
    /\ "t1" \in held[Folder]
    /\ drain["t1"].pc = "execute" /\ drain["t1"].notified
    /\ active_video_stream_counts_lock = "t2"
    /\ drain["t2"].pc = "test"

-----------------------------------------------------------------------------
(* C29: every reader that entered the registry leaves it *)

\* the request of s has ended, or s has served none
Over(s) == streams[s].pc = "idle"

\* C29: a range read changes the registry at most twice: it adds one to the
\* count of its path, and when it ends, by reading its range to the end, by an
\* exception or because the client has gone and the generator is closed, it
\* takes one off again, exactly once; a read that never entered takes nothing
\* off; and when no read of a path is under way the registry has no entry for
\* the path
C29_EnteredReadersExit ==
    /\ \A s \in StreamThreads :
          /\ streams[s].exited <= streams[s].entered
          /\ streams[s].entered <= 1
          /\ Over(s) => streams[s].exited = streams[s].entered
          /\ streams[s].pc = "read" => (streams[s].entered = 1 /\ streams[s].exited = 0)
          /\ (Over(s) /\ streams[s].entered = 1)
                => streams[s].how \in {"complete", "error", "closed"}
    /\ \A p \in VideoPaths :
          (\A s \in StreamThreads : Over(s) \/ streams[s].path # p)
              => p \notin DOMAIN active_video_stream_counts

\* one read was cut short by its client and the other by an exception: both
\* have left the registry, which is empty
C29_Witness ==
    /\ Over("s1") /\ streams["s1"].how = "closed"
    /\ Over("s2") /\ streams["s2"].how = "error"
    /\ \A s \in StreamThreads : streams[s].entered = 1 /\ streams[s].exited = 1
    /\ active_video_stream_counts = <<>>

-----------------------------------------------------------------------------
(* C30: the deliveries that the registry counts *)

\* thread s has the file of its request open and delivers it: a range that
\* generate() reads, or the whole file that send_file sends
Delivering(s) == streams[s].pc \in {"enter", "read", "send"}

\* C30: while a video is delivered, as a range or whole, the count of its path
\* is at least one
C30_DeliveryCounted ==
    \A s \in StreamThreads :
        Delivering(s) => counts_get(active_video_stream_counts, streams[s].path, 0) >= 1

\* a.mp4 is being sent whole, and a delete of a.mp4 found the count zero at
\* its first test and went on without waiting
C30_WholeFileUncounted ==
    /\ streams["s1"].pc = "send" /\ streams["s1"].path = FileA
    /\ drain["t1"].pc = "execute"
    /\ drain["t1"].action.paths[1] = FileA
    /\ drain["t1"].count = 0 /\ drain["t1"].elapsed = 0 /\ ~drain["t1"].notified
    /\ streams["s2"].pc = "idle"

-----------------------------------------------------------------------------
(* C31: the status of each kind of error *)

\* the kind of error that an exception stands for
KindOf(err) ==
    CASE err = "ValueError" -> "ValidationError"
      [] err = "FileNotFoundError" -> "NotFound"
      [] err = "FileExistsError" -> "Conflict"
      [] err = "TimeoutError" -> "Timeout"
      [] err = "RuntimeError" -> "ExternalToolFailure"
      [] OTHER -> "internal"

\* the five kinds of the claim
Kinds == {"ValidationError", "NotFound", "Conflict", "Timeout", "ExternalToolFailure"}

\* the last two answers were to errors of two of the five kinds
TwoKinds ==
    /\ Len(responses) = 2
    /\ KindOf(responses[1].err) \in Kinds
    /\ KindOf(responses[2].err) \in Kinds
    /\ KindOf(responses[1].err) # KindOf(responses[2].err)

\* C31 as the specification states it: errors of two kinds are answered with
\* two statuses
C31_KindsHaveDistinctStatus == TwoKinds => responses[1].status # responses[2].status

\* C31: ValidationError is answered with 400, NotFound with 404, Conflict and
\* Timeout both with 409, ExternalToolFailure with 500 by every route; so
\* errors of two kinds get two statuses unless one is a Conflict and the other
\* a Timeout, which get the same
C31_StatusOfKinds ==
    /\ \A i \in DOMAIN responses :
          responses[i].status
              = CASE KindOf(responses[i].err) = "ValidationError" -> 400
                  [] KindOf(responses[i].err) = "NotFound" -> 404
                  [] KindOf(responses[i].err) \in {"Conflict", "Timeout"} -> 409
                  [] OTHER -> 500
    /\ TwoKinds =>
          (responses[1].status = responses[2].status
              <=> {KindOf(responses[1].err), KindOf(responses[2].err)} = {"Conflict", "Timeout"})

\* an undo that timed out at the FolderLock and an execute that met an
\* occupied destination were both answered with 409
C31_Witness ==
    /\ Len(responses) = 2
    /\ responses[1].route = "undo_action" /\ responses[1].err = "TimeoutError"
    /\ responses[2].route = "action" /\ responses[2].err = "FileExistsError"
    /\ responses[1].status = 409 /\ responses[2].status = 409

-----------------------------------------------------------------------------
(* C32: records are immutable *)

\* the records that the last call found at or before the cursor
KeptRecords == SubSeq(State0.actions, 1, State0.cursor + 1)

\* the records that the last call found after the cursor
TailRecords == {State0.actions[i] : i \in (State0.cursor + 2)..Len(State0.actions)}

\* C32: an undo, a redo and an execute that raises leave the records as the
\* call found them, each with its content at its index; an execute that
\* returns leaves the records up to the cursor as they were, each at its
\* index, followed by one new record, and the records it found after the
\* cursor are the only ones that are gone
C32_RecordsImmutable ==
    /\ (last.op \in {"undo", "redo"} \/ (last.op = "execute" /\ ~last.ok)) =>
          State.actions = State0.actions
    /\ (last.op = "execute" /\ last.ok) =>
          /\ \A i \in 1..(State0.cursor + 1) :
                i \in DOMAIN State.actions /\ State.actions[i] = State0.actions[i]
          /\ State.actions = Append(KeptRecords, last.record)
          /\ Range(State0.actions) \ Range(State.actions) \subseteq TailRecords

\* a redo of the first of two undone records kept the second, and so did the
\* undo before it
C32_Witness ==
    /\ last.op = "redo" /\ last.ok
    /\ State0.cursor = -1 /\ Len(State0.actions) = 2
    /\ Len(State.actions) = 2
    /\ State.actions[2] = State0.actions[2]
    /\ State.actions[1] = last.record

-----------------------------------------------------------------------------
(* C33: redo and the stored paths *)

\* the last call was a redo that met an occupied path
RedoConflict == last.op = "redo" /\ ~last.ok /\ last.err = "FileExistsError"

\* C33: in a folder that only the service changes, and in which no tool and
\* no rename has failed, a redo never raises FileExistsError: no apply and no
\* undo of another action has put a file at a path that the undone record
\* stores
C33_RedoNeverConflicts == ~RedoConflict

\* the output of a Trim named "undo" was moved by its undo to
\* TO_BE_DELETED/undo_archive_undo.mp4, the path at which the next Trim had
\* archived that output as its source, and the redo of that Trim found it
C33_UndoArchiveTaken ==
    /\ RedoConflict
    /\ last.record.action_type = "trim"
    /\ last.record.payload.archived_paths
          = <<Path(get_archive_dir(Folder), "undo_archive_undo", ".mp4")>>
    /\ exists(last.fs0, Path(get_archive_dir(Folder), "undo_archive_undo", ".mp4"))

-----------------------------------------------------------------------------
(* C34: the log and the files *)

\* undoing the records k, k - 1, ..., 1 one after the other, from the files f,
\* with no fault: whether every undo finds the files it expects
RECURSIVE Unwinds(_, _, _)
Unwinds(f, actions, k) ==
    \/ k = 0
    \/ /\ ActionUndo(create_action_from_record(actions[k]), f, NoFault).ok
       /\ Unwinds(ActionUndo(create_action_from_record(actions[k]), f, NoFault).fs,
                  actions, k - 1)

\* redoing the records k, k + 1, ..., len(actions) one after the other
RECURSIVE Replays(_, _, _)
Replays(f, actions, k) ==
    \/ k > Len(actions)
    \/ /\ ActionRedo(create_action_from_record(actions[k]), f, NoFault).ok
       /\ Replays(ActionRedo(create_action_from_record(actions[k]), f, NoFault).fs,
                  actions, k + 1)

\* the record at the cursor has its output and its archived sources at the
\* stored paths
TopApplied ==
    State.cursor >= 0 =>
        \A p \in Memoized(State.actions[State.cursor + 1]) : exists(fs, p)

\* the record after the cursor has its sources in the folder and its stored
\* paths free
NextUnapplied ==
    State.cursor + 1 < Len(State.actions) =>
        /\ \A p \in Range(State.actions[State.cursor + 2].payload.paths) : exists(fs, p)
        /\ \A p \in Memoized(State.actions[State.cursor + 2]) : ~exists(fs, p)

\* C34: between calls on a folder that only the service changes, the records
\* up to the cursor are in their applied layout, so that they can be undone
\* one after the other, and the records after the cursor are in their
\* unapplied layout, so that they can be redone one after the other
C34_LogMatchesFiles ==
    /\ TopApplied
    /\ NextUnapplied
    /\ Unwinds(fs, State.actions, State.cursor + 1)
    /\ Replays(fs, State.actions, State.cursor + 2)

-----------------------------------------------------------------------------
(* C35: an undo that is refused *)

\* the last call was an undo whose action raised NotFound or Conflict
UndoRefused ==
    /\ last.op = "undo" /\ ~last.ok /\ last.ran
    /\ last.err \in {"FileNotFoundError", "FileExistsError"}

\* C35: an undo that raises FileNotFoundError or FileExistsError has moved no
\* file: the folder and its archive directory are as the call found them
C35_RefusedUndoMovesNothing == UndoRefused => fs = last.fs0

\* the undo of a Merge found the merged output, moved it into the archive
\* directory and then raised for an archived original that was gone
C35_MergeUndoHalfDone ==
    /\ UndoRefused
    /\ last.record.action_type = "merge"
    /\ last.err = "FileNotFoundError"
    /\ exists(last.fs0, last.record.payload.out_path)
    /\ ~exists(fs, last.record.payload.out_path)
    /\ exists(fs, UndoArchivePath(last.fs0, last.record))

\* the undo of a Rename, a Trim or a Delete that is refused has moved no file
C35_OtherVariantsMoveNothing ==
    (UndoRefused /\ last.record.action_type # "merge") => fs = last.fs0

-----------------------------------------------------------------------------
(* C36: the lock after a call *)

\* the callers inside a with-block, from _load_state to __exit__
InBody == {c \in Callers : callers[c].pc \in {"load", "act", "save", "release"}}

\* the caller c has made a call that raised err in the body of the with-block
Failed(c, err) ==
    /\ callers[c].pc = "idle" /\ callers[c].calls > 0
    /\ ~callers[c].out.ok /\ callers[c].out.err = err
    /\ callers[c].out.err \notin {"TimeoutError"}

\* C36: a caller whose call has ended, by a return or by an exception, does
\* not hold the FolderLock: its holders are the callers inside the with-block,
\* so when no call is in its body the next _acquire succeeds at its first
\* attempt
C36_LockReleased ==
    /\ held[Folder] = InBody
    /\ \A c \in Callers : callers[c].pc = "idle" => c \notin held[Folder]
    /\ InBody = {} => \A c \in Callers : flock_granted(held[Folder], c)

\* a redo has raised FileExistsError, and the other caller holds the lock now
C36_Witness ==
    /\ Failed("t1", "FileExistsError")
    /\ callers["t2"].pc = "act"
    /\ held[Folder] = {"t2"}

-----------------------------------------------------------------------------
(* C37: a Rename to the name the file has *)

\* the last call executed a Rename that returned
RenameExecuted == last.op = "execute" /\ last.ok /\ last.record.action_type = "rename"

\* ... and the name asked for is the name the source has
OwnName ==
    /\ RenameExecuted
    /\ sanitize_filename(last.record.payload.new_name) = last.record.payload.paths[1].base

\* "name (n).ext" next to the source of the last call
OwnNumbered(n) == Numbered(last.record.payload.paths[1], n)

\* C37: an executed Rename to the name that the source already has does not
\* resolve to the source path: its destination is "name (N).ext" with the
\* least N >= 2 that was free, and the file has moved there; and a Rename
\* that returns without moving the file is one whose stored destination is
\* its source path
C37_OwnNameIsNumbered ==
    /\ OwnName =>
          /\ last.record.payload.out_path # last.record.payload.paths[1]
          /\ \E n \in 2..(Cardinality(DOMAIN last.fs0) + 1) :
                /\ last.record.payload.out_path = OwnNumbered(n)
                /\ ~exists(last.fs0, OwnNumbered(n))
                /\ \A k \in 2..(n - 1) : exists(last.fs0, OwnNumbered(k))
          /\ ~exists(fs, last.record.payload.paths[1])
          /\ exists(fs, last.record.payload.out_path)
          /\ fs[last.record.payload.out_path] = last.fs0[last.record.payload.paths[1]]
          /\ last.result = last.record.payload.out_path
    /\ (last.ok /\ last.ran /\ last.record.action_type = "rename" /\ fs = last.fs0) =>
          last.record.payload.out_path = last.record.payload.paths[1]

\* b.mp4 was renamed to "b" in a folder that held "b (2).mp4", and is now
\* "b (3).mp4"
C37_Witness ==
    /\ OwnName
    /\ last.record.payload.paths[1] = FileB
    /\ exists(last.fs0, Path(Folder, "b (2)", ".mp4"))
    /\ last.record.payload.out_path = Path(Folder, "b (3)", ".mp4")
    /\ exists(fs, Path(Folder, "b (3)", ".mp4"))
    /\ ~exists(fs, FileB)

-----------------------------------------------------------------------------
(* C38: calls on two folders *)

\* the callers that hold the lock of the folder of c's call, c aside
HoldersBeside(c) == held[FolderOf(c)] \ {c}

\* c waits at _acquire: a failed attempt, followed by a sleep or by TimeoutError
Waits(c) ==
    /\ callers[c].pc = "acquire"
    /\ callers'[c] # callers[c]
    /\ callers'[c].pc # "load"

\* c is refused in __enter__
Refused(c) ==
    /\ callers[c].pc = "idle"
    /\ callers'[c].pc = "idle"
    /\ callers'[c].calls = callers[c].calls + 1

\* a call on a folder waits, times out or is refused only while a call on the
\* same folder holds its lock, and history.json of a folder is written only
\* by the _save_state of a call on that folder
KeyedByFolder ==
    /\ \A c \in Callers : Waits(c) => HoldersBeside(c) # {}
    /\ \A c \in Callers : Refused(c) => held[RequestFolder(callers'[c])] \ {c} # {}
    /\ \A d \in BothFolders :
          history'[d] # history[d] =>
              \E c \in Callers :
                  /\ callers[c].pc = "save" /\ callers'[c].pc = "release"
                  /\ FolderOf(c) = d
                  /\ c \in held[d]

\* the lock files of two folders differ, and so do their history files; the
\* holders of a lock are callers on its folder; the records of a history are
\* those of its folder
FilesPerFolder ==
    /\ \A d1, d2 \in BothFolders :
          d1 # d2 => /\ lock_path(d1) # lock_path(d2)
                     /\ state_file_path(d1) # state_file_path(d2)
    /\ \A d \in BothFolders :
          /\ \A c \in held[d] : FolderOf(c) = d
          /\ Cardinality(held[d]) <= 1
          /\ \A i \in DOMAIN load_state(history[d]).actions :
                load_state(history[d]).actions[i].folder_path = d

\* C38: calls on different folders use different lock files and different
\* history files: a call in flight on one folder never makes a call on
\* another folder wait, time out or fail at the lock, and never changes the
\* other folder's history
C38_FoldersIndependent == []FilesPerFolder /\ [][KeyedByFolder]_vars

\* t1 is inside an execute on the one folder, and t2, which did not wait, is
\* inside a call on the other folder, whose history already has a record
C38_Witness ==
    /\ callers["t1"].pc = "act" /\ FolderOf("t1") = Folder
    /\ callers["t2"].pc \in {"act", "save"} /\ FolderOf("t2") = OtherFolder
    /\ callers["t2"].waited = 0
    /\ held[Folder] = {"t1"} /\ held[OtherFolder] = {"t2"}
    /\ load_state(history[OtherFolder]).actions # <<>>

====
